---- MODULE Spec2Model ----
(***************************************************************************)
(* ChatGPTArchiver: the background service worker (batch orchestrator,     *)
(* chunked transfer sender, offscreen provisioning), the offscreen         *)
(* document's message listener (chunk reassembly, parse, render) and the   *)
(* content script of a fallback tab.                                       *)
(*                                                                         *)
(* Every context is single-threaded: an action of a handler is one         *)
(* run-to-completion stretch of JavaScript, from the resumption of an      *)
(* await up to the next await.  Contexts exchange messages through         *)
(* chrome.runtime.sendMessage; a request in flight sits in msgs, its       *)
(* answer in resps.                                                        *)
(***************************************************************************)
EXTENDS Integers, Sequences, FiniteSets, TLC

----------------------------------------------------------------------------
(* Bounds of the model *)

\* concurrent requests (BATCH_EXPORT / EXPORT_SINGLE) the service handles
MaxRequests == 2
\* conversation ids requested by all BATCH_EXPORT requests together
MaxItems == 3
\* provisioning attempts (async bodies of setupOffscreenDocument) ever started
MaxProvision == 2
\* nodes of a document matching [data-testid^="conversation-turn-"]
MaxTurns == 5
\* nodes of a document matching .group, [class*="group/conversation-turn"]
MaxGroups == 2
\* code units of a title handed to sanitizeFilename
MaxNameLen == 5
\* calls of waitForPageLoad under study
MaxWaits == 2
\* runtime messages dispatched while they wait
MaxSignals == 2

(* Program constants *)

\* background.js:191  const CHUNK_SIZE = 1024 * 1024, scaled to 2 code units
CHUNK_SIZE == 2
\* background.js:465  waitForOffscreen(attempts = 10), scaled to 2 pings
DefaultAttempts == 2
\* background.js:304 / extractor.js:164  the 0.7 threshold, in tenths
ReliableTenths == 7
\* common.js (part_007:140)  substring(0, 50), scaled to 3 code units
FilenameLimit == 3

----------------------------------------------------------------------------
(* Strings.  A string is a sequence of UTF-16 code units; "W" stands for a  *)
(* code unit that takes three bytes in UTF-8, every other unit takes one.   *)
(* Marker units stand for markup the extractor reacts to:                   *)
(*   "S"  an element matching [class*="skeleton"]                           *)
(*   "L"  an element matching [class*="lazy"]                               *)
(*   "X"  a conversation-turn node whose className has no includes()        *)
(*        (an SVG element), on which getMessageRole throws                  *)

Min(a, b) == IF a < b THEN a ELSE b
Max(a, b) == IF a < b THEN b ELSE a

ByteLen(c) == IF c = "W" THEN 3 ELSE 1

RECURSIVE BlobSize(_)
\* new Blob([html]).size : the UTF-8 byte length
BlobSize(s) == IF s = <<>> THEN 0 ELSE ByteLen(Head(s)) + BlobSize(Tail(s))

\* String.prototype.slice(from, to) with 0 <= from < length, from < to
Slice(s, from, to) == SubSeq(s, from + 1, Min(to, Len(s)))

\* ChunksOf with the end of every slice one code unit early
ChunksOfShort(html) ==
    LET n == (Len(html) + CHUNK_SIZE - 1) \div CHUNK_SIZE
    IN  [k \in 1..n |-> Slice(html, (k - 1) * CHUNK_SIZE, k * CHUNK_SIZE - 1)]

\* background.js:337-340  the chunks array
ChunksOf(html) ==
    LET n == (Len(html) + CHUNK_SIZE - 1) \div CHUNK_SIZE
    IN  [k \in 1..n |-> Slice(html, (k - 1) * CHUNK_SIZE, k * CHUNK_SIZE)]

Has(s, c) == \E k \in 1..Len(s) : s[k] = c

RECURSIVE Rep(_, _)
Rep(c, n) == IF n = 0 THEN <<>> ELSE <<c>> \o Rep(c, n - 1)

----------------------------------------------------------------------------
(* The server: what fetch returns for each conversation id *)

Ids == {"small", "big", "low", "bad"}

\* background.js:269  `https://chat.openai.com/c/${id}`
UrlOf(id) == <<"https://chat.openai.com/c/", id>>

NoUrl == <<"", "">>

\* The page served for an id.  "big" exceeds 5 * CHUNK_SIZE bytes and ends
\* in a slice shorter than CHUNK_SIZE; "small" has exactly 5 * CHUNK_SIZE
\* bytes, the other pages have fewer.
PageOf(id) ==
    CASE id = "small" -> Rep("W", CHUNK_SIZE + 1) \o <<"a">>
      [] id = "big"   -> Rep("W", 2 * CHUNK_SIZE) \o <<"a">>
      [] id = "low"   -> <<"S", "a">>
      [] id = "bad"   -> <<"X">>

----------------------------------------------------------------------------
(* JavaScript values.  null is the empty sequence and a value that is      *)
(* present is a sequence of one element, where a property may hold either; *)
(* an argument of any type is a record of its typeof and its value.        *)

Null == <<>>

Undefined == [t |-> "undefined", v |-> <<>>]
NullArg   == [t |-> "object", v |-> <<>>]
Str(s)    == [t |-> "string", v |-> s]
Num(n)    == [t |-> "number", v |-> <<n>>]
Bool(b)   == [t |-> "boolean", v |-> <<b>>]
Obj(o)    == [t |-> "object", v |-> <<o>>]

\* ToBoolean of an argument: undefined, null, '' and 0 are falsy
Truthy(x) ==
    CASE x.t = "undefined" -> FALSE
      [] x.t = "object"    -> x.v # <<>>
      [] x.t = "string"    -> Len(x.v) > 0
      [] x.t = "number"    -> x.v # <<0>>
      [] x.t = "boolean"   -> x.v = <<TRUE>>

RECURSIVE TrimStart(_)
TrimStart(s) ==
    IF s # <<>> /\ Head(s) = " " THEN TrimStart(Tail(s)) ELSE s

RECURSIVE TrimEnd(_)
TrimEnd(s) ==
    IF s # <<>> /\ s[Len(s)] = " " THEN TrimEnd(SubSeq(s, 1, Len(s) - 1)) ELSE s

\* String.prototype.trim
Trim(s) == TrimEnd(TrimStart(s))

\* String.prototype.includes, a class name or alt text being a sequence of words
Includes(words, w) == \E k \in 1..Len(words) : words[k] = w

----------------------------------------------------------------------------
(* Documents the extractor reads.  A document is described by what the      *)
(* selectors of extractor.js find in it.                                    *)

\* the first time element inside a message node: its datetime attribute
\* (null when it has none) and its text
TimeElements ==
    [datetime : {Null, <<"">>, <<"2024-01-15T10:30:00Z">>},
     textContent : {"", "Yesterday"}]

\* a node matching [data-testid^="conversation-turn-"]: its class name, its
\* data-message-author-role, the alt text of its first img[alt], its first
\* time element, its text, and the data-code-block attribute (null when
\* absent) of every code element inside its text container
TurnNodes ==
    {[className |-> <<>>, author |-> Null, alt |-> Null, time |-> Null,
      textContent |-> <<"h", "i">>, code |-> <<>>],
     [className |-> <<"user">>, author |-> Null, alt |-> Null,
      time |-> <<[datetime |-> <<"2024-01-15T10:30:00Z">>,
                  textContent |-> "Jan 15, 2024"]>>,
      textContent |-> <<"h", "i">>, code |-> <<Null>>]}

\* the message nodes getMessageRole and getMessageTimestamp are called with
Elements ==
    [className : {<<>>, <<"user">>, <<"assistant">>},
     author : {Null, <<"user">>, <<"assistant">>, <<"system">>},
     alt : {Null, <<<<"User">>>>, <<<<"ChatGPT">>>>, <<<<"Assistant">>>>,
            <<<<"logo">>>>},
     time : {Null} \cup {<<t>> : t \in TimeElements},
     textContent : {<<"h", "i">>}]

\* a node matching .group, [class*="group/conversation-turn"]
GroupNodes ==
    {[textContent |-> t] : t \in {<<>>, <<" ">>, <<" ", "h", "i">>}}

SeqsUpTo(S, n) == UNION {[1..len -> S] : len \in 0..n}

Documents ==
    [turns : SeqsUpTo(TurnNodes, MaxTurns),
     groups : SeqsUpTo(GroupNodes, MaxGroups),
     lazy : 0..1,          \* nodes matching the selector of line 119
     skeleton : 0..1,      \* nodes matching the selector of line 144
     loadMore : BOOLEAN,   \* body.innerHTML.includes('Load more')
     bodyLong : BOOLEAN]   \* body.textContent.trim().length > 100

\* window.location.href of the context the extractor runs in
AmbientUrl == <<"https://chat.openai.com/c/", "ambient">>

\* the url arguments extractConversation is called with
UrlArgs ==
    {Undefined, NullArg, Str(<<>>), Num(42),
     Str(<<"https://chat.openai.com/c/", "small">>),
     Str(<<"https://chat.openai.com/", "">>)}

\* the values the constructor is called with as rootElement: nothing, null,
\* a string, and objects with or without querySelectorAll of node type
\* none (0), element (1), document (9) or document fragment (11)
RootArgs ==
    {Undefined, NullArg, Str(<<"string">>)} \cup
    {Obj(o) : o \in [querySelectorAll : BOOLEAN, nodeType : {0, 1, 9, 11}]}

\* the values the constructor is called with as isStatic
StaticArgs == {Undefined, Bool(TRUE), Bool(FALSE)}

\* the global document of the context the class is loaded in (content
\* script, offscreen document, jsdom)
AmbientDocument == Obj([querySelectorAll |-> TRUE, nodeType |-> 9])

----------------------------------------------------------------------------
(* ChatGPTExtractor, extractor.js *)

TypeError(message) == [thrown |-> message, name |-> "TypeError"]

\* typeof rootElement.querySelectorAll === 'function'
HasQuerySelectorAll(x) ==
    x.t = "object" /\ x.v # <<>> /\ x.v[1].querySelectorAll

\* lines 24-40: new ChatGPTExtractor(rootArg, staticArg); a parameter that
\* is undefined takes its default
ChatGPTExtractor(rootArg, staticArg) ==
    LET rootElement == IF rootArg.t = "undefined" THEN AmbientDocument
                       ELSE rootArg
        static      == IF staticArg.t = "undefined" THEN Bool(FALSE)
                       ELSE staticArg
    IN  IF ~Truthy(rootElement) \/ ~HasQuerySelectorAll(rootElement)
        THEN TypeError("rootElement must be a Document or Element with querySelectorAll")
        ELSE IF rootElement.v[1].nodeType \notin {9, 1}
        THEN TypeError("rootElement must be a Document or Element")
        ELSE [root |-> rootElement, isStatic |-> static]

\* what the selectors of getConversationTitle find: the text of the first
\* h1, of the first [class*="text-2xl"] node and of the title element
TitleDocuments ==
    [h1 : {Null, <<<<" ">>>>, <<<<" ", "H", " ">>>>},
     text2xl : {Null, <<<<>>>>, <<<<"X", " ">>>>},
     title : {Null, <<<<" ", " ">>>>, <<<<"T">>>>}]

\* getConversationTitle taking the first candidate that exists
getConversationTitleUntrimmed(doc) ==
    IF doc.h1 # Null THEN doc.h1[1]
    ELSE IF doc.text2xl # Null THEN doc.text2xl[1]
    ELSE IF doc.title # Null THEN doc.title[1]
    ELSE <<"ChatGPT Conversation">>

\* lines 169-184
getConversationTitle(doc) ==
    IF doc.h1 # Null /\ Trim(doc.h1[1]) # <<>> THEN Trim(doc.h1[1])
    ELSE IF doc.text2xl # Null /\ Trim(doc.text2xl[1]) # <<>>
    THEN Trim(doc.text2xl[1])
    ELSE IF doc.title # Null /\ Trim(doc.title[1]) # <<>>
    THEN Trim(doc.title[1])
    ELSE <<"ChatGPT Conversation">>

\* lines 186-189: url.match(/\/c\/([a-zA-Z0-9-]+)/)
getConversationId(url) ==
    IF Len(url) = 2 /\ url[1] = "https://chat.openai.com/c/" /\ url[2] # ""
    THEN url[2] ELSE "unknown"

\* String.prototype.toLowerCase on a code unit or on a word of an alt text
ToLowerCase(w) ==
    CASE w = "A" -> "a"
      [] w = "B" -> "b"
      [] w = "User" -> "user"
      [] w = "ChatGPT" -> "chatgpt"
      [] w = "Assistant" -> "assistant"
      [] OTHER -> w

\* lines 205-224
getMessageRole(element) ==
    IF Includes(element.className, "user") \/ element.author = <<"user">>
    THEN "user"
    ELSE IF Includes(element.className, "assistant")
            \/ element.author = <<"assistant">>
    THEN "assistant"
    ELSE IF element.alt = Null THEN "unknown"
    ELSE LET alt == [k \in 1..Len(element.alt[1]) |->
                        ToLowerCase(element.alt[1][k])]
         IN  IF Includes(alt, "user") THEN "user"
             ELSE IF Includes(alt, "chatgpt") \/ Includes(alt, "assistant")
             THEN "assistant"
             ELSE "unknown"

\* lines 248-254: getAttribute('datetime') || textContent, or null
getMessageTimestamp(element) ==
    IF element.time = Null THEN Null
    ELSE LET timeElement == element.time[1]
         IN  IF timeElement.datetime # Null /\ timeElement.datetime # <<"">>
             THEN timeElement.datetime
             ELSE <<timeElement.textContent>>

\* lines 226-246: the content of a message node and the node as the call
\* leaves it, with block.setAttribute('data-code-block', 'true') applied to
\* every code element of its text container
getMessageContent(element) ==
    [text |-> element.textContent,
     hasCode |-> Len(element.code) > 0,
     element |-> [element EXCEPT
                     !.code = [k \in 1..Len(@) |-> <<"true">>]]]

\* lines 64-71: the document after messageElements.forEach has called
\* extractMessage, and with it getMessageContent, on every message node
RootAfterExtraction(doc) ==
    [doc EXCEPT !.turns = [k \in 1..Len(@) |-> getMessageContent(@[k]).element]]

\* lines 191-203
extractMessage(element, index) ==
    [index |-> index, role |-> getMessageRole(element),
     content |-> element.textContent,
     timestamp |-> getMessageTimestamp(element)]

\* the message extractMessagesAlternative builds for the group at position
\* index, with the role taken from the alternation of turns
AltMessageAlternating(group, index) ==
    [index |-> index, role |-> IF index % 2 = 0 THEN "user" ELSE "assistant",
     content |-> Trim(group.textContent), timestamp |-> Null]

\* lines 263-273
AltMessage(group, index) ==
    [index |-> index, role |-> "unknown",
     content |-> Trim(group.textContent), timestamp |-> Null]

RECURSIVE AltFrom(_, _)
\* lines 260-275: groups.forEach((group, index) => ...) from position k on
AltFrom(groups, k) ==
    IF k > Len(groups) THEN <<>>
    ELSE (IF Trim(groups[k].textContent) # <<>>
          THEN <<AltMessage(groups[k], k - 1)>> ELSE <<>>)
         \o AltFrom(groups, k + 1)

\* lines 256-278
extractMessagesAlternative(doc) == AltFrom(doc.groups, 1)

\* messages.filter(m => m.timestamp !== null).length
WithTimestamps(messages) ==
    Cardinality({k \in 1..Len(messages) : messages[k].timestamp # Null})

\* check 2 with timestampRatio <= 0.5
FewTimestampsUpToHalf(messages) ==
    Len(messages) > 0 /\ 2 * WithTimestamps(messages) <= Len(messages)

\* lines 128-130: messages.length > 0 && timestampRatio < 0.5
FewTimestamps(messages) ==
    Len(messages) > 0 /\ 2 * WithTimestamps(messages) < Len(messages)

\* AssessCompleteness without Math.max(0, score) of line 159
AssessCompletenessUnclamped(doc, messages) ==
    LET n  == Len(messages)
        c1 == doc.lazy > 0
        c2 == FewTimestamps(messages)
        c3 == n < 5 /\ doc.loadMore
        c4 == doc.skeleton > 0
        c5 == n = 0 /\ doc.bodyLong
        score == 10 - (IF c1 THEN 3 ELSE 0) - (IF c2 THEN 2 ELSE 0)
                    - (IF c3 THEN 4 ELSE 0) - (IF c4 THEN 5 ELSE 0)
                    - (IF c5 THEN 6 ELSE 0)
    IN  [score |-> score,
         warnings |-> (IF c1 THEN <<"lazy">> ELSE <<>>)
                      \o (IF c2 THEN <<"timestamps">> ELSE <<>>)
                      \o (IF c3 THEN <<"truncated">> ELSE <<>>)
                      \o (IF c4 THEN <<"skeleton">> ELSE <<>>)
                      \o (IF c5 THEN <<"empty">> ELSE <<>>),
         isReliable |-> score >= 7]

\* lines 112-166, the score in tenths; a warning is named by its check
AssessCompleteness(doc, messages) ==
    LET n  == Len(messages)
        c1 == doc.lazy > 0
        c2 == FewTimestamps(messages)
        c3 == n < 5 /\ doc.loadMore
        c4 == doc.skeleton > 0
        c5 == n = 0 /\ doc.bodyLong
        score == Max(0, 10 - (IF c1 THEN 3 ELSE 0) - (IF c2 THEN 2 ELSE 0)
                           - (IF c3 THEN 4 ELSE 0) - (IF c4 THEN 5 ELSE 0)
                           - (IF c5 THEN 6 ELSE 0))
    IN  [score |-> score,
         warnings |-> (IF c1 THEN <<"lazy">> ELSE <<>>)
                      \o (IF c2 THEN <<"timestamps">> ELSE <<>>)
                      \o (IF c3 THEN <<"truncated">> ELSE <<>>)
                      \o (IF c4 THEN <<"skeleton">> ELSE <<>>)
                      \o (IF c5 THEN <<"empty">> ELSE <<>>),
         isReliable |-> score >= 7]

\* lines 64-77: the messages of the record
Messages(doc) ==
    LET primary == [k \in 1..Len(doc.turns) |->
                        extractMessage(doc.turns[k], k - 1)]
    IN  IF Len(primary) = 0 THEN extractMessagesAlternative(doc) ELSE primary

\* lines 54-92: the record for a url that passed the check of line 50
Conversation(doc, static, url) ==
    IF static
    THEN LET assessment == AssessCompleteness(doc, Messages(doc))
         IN  [url |-> url, conversationId |-> getConversationId(url),
              messages |-> Messages(doc),
              metadata |-> [extractionMethod |-> "static-html",
                            confidence |-> assessment.score,
                            warnings |-> assessment.warnings]]
    ELSE [url |-> url, conversationId |-> getConversationId(url),
          messages |-> Messages(doc),
          metadata |-> [extractionMethod |-> "live-dom", confidence |-> 10]]

Thrown(message) == [thrown |-> message]

\* extractConversation with the page's own url as the default of its parameter
extractConversationAmbient(doc, static, url) ==
    Conversation(doc, static, IF Truthy(url) THEN url.v ELSE AmbientUrl)

\* lines 48-93
extractConversation(doc, static, url) ==
    IF ~Truthy(url) \/ url.t # "string"
    THEN Thrown("URL parameter is required for extraction")
    ELSE Conversation(doc, static, url.v)

\* DOMParser.parseFromString (README.md:136-137) of a fetched page: the
\* modelled pages carry no message nodes, no "Load more" text and fewer
\* than 100 characters of body text
PageDocument(html) ==
    [turns |-> <<>>, groups |-> <<>>,
     lazy |-> IF Has(html, "L") THEN 1 ELSE 0,
     skeleton |-> IF Has(html, "S") THEN 1 ELSE 0,
     loadMore |-> FALSE, bodyLong |-> FALSE]

----------------------------------------------------------------------------
(* The extraction engine, as far as the orchestrator depends on it *)

NoData == [url |-> NoUrl, doc |-> <<>>, method |-> "none", confidence |-> 0]

\* extractor.js:81-84: the score of a fetched page, in tenths.  Checks 2, 3
\* and 5 do not apply to the modelled pages.
assessCompleteness(doc) == AssessCompleteness(PageDocument(doc), <<>>).score

\* extractor.js:205-209 applied to every turn node: className.includes
ExtractionThrows(doc) == Has(doc, "X")

\* offscreen parseAndExtractHtml (README.md:135-141) with
\* extractConversation (extractor.js:48-93) in static mode
parseAndExtractHtml(html, url) ==
    [url |-> url, doc |-> html, method |-> "static-html",
     confidence |-> assessCompleteness(html)]

\* a record extracted from the live page by the popup (EXPORT_SINGLE payload)
LiveRecord ==
    [url |-> UrlOf("small"), doc |-> <<"a">>, method |-> "live-dom",
     confidence |-> 10]

----------------------------------------------------------------------------
(* State *)

VARIABLES
    hd,                \* the async invocation of handleMessage per request
    offscreenPromise,  \* BackgroundService.offscreenPromise: 0 is null
    promises,          \* every promise setupOffscreenDocument has created
    offscreen,         \* the offscreen document: "none", "loading", "listening"
    htmlBuffer,        \* offscreen global
    expectedChunks,    \* offscreen global
    receivedChunks,    \* offscreen global
    currentParseUrl,   \* offscreen global
    session,           \* sender of the last PARSE_INIT not yet followed by a
                       \* PARSE_COMPLETE (<<>> when no reassembly is open)
    msgs,              \* chrome.runtime.sendMessage requests in flight
    resps,             \* answers on their way back to the sender
    tabs,              \* open fallback tabs: id, the handler that created it
                       \* (by), url, and whether its content script runs
    nextTabId,         \* the id chrome.tabs.create hands out next
    badge,             \* chrome.action badge text (<<>> is '')
    notifications,     \* chrome.notifications created so far; text holds the
                       \* numbers of the message: <<total>> at the start,
                       \* <<successful, failed>> at the end
    root,              \* ChatGPTExtractor.root of the extractor under study
    isStatic,          \* ChatGPTExtractor.isStatic
    urlArg,            \* the argument of its extractConversation call
    conversation,      \* what the call returned or threw
    call,              \* a single function called on its own: fn and arg
    returned,          \* what that call returned or threw
    waits,             \* the promises of waitForPageLoad under study
    signals            \* the runtime messages dispatched to their listeners

offVars  == <<htmlBuffer, expectedChunks, receivedChunks, currentParseUrl,
              session>>
provVars == <<offscreenPromise, promises>>
uxVars   == <<badge, notifications>>
tabVars  == <<tabs, nextTabId>>
exVars   == <<root, isStatic, urlArg, conversation, call, returned,
              waits, signals>>
vars == <<hd, offscreenPromise, promises, offscreen, htmlBuffer,
          expectedChunks, receivedChunks, currentParseUrl, session,
          msgs, resps, tabs, nextTabId, badge, notifications,
          root, isStatic, urlArg, conversation, call, returned,
          waits, signals>>

H == 1..MaxRequests

\* the conversationIds lists of at most n ids
BatchLists(n) ==
    {<<>>} \cup UNION {[1..len -> Ids] : len \in 1..n}

NoHandler ==
    [kind |-> "none", pc |-> "idle", ids |-> <<>>, i |-> 0,
     successful |-> 0, failed |-> 0, html |-> <<>>, k |-> 0,
     data |-> NoData, awaiting |-> 0, tab |-> 0,
     fetched |-> <<>>, downloads |-> 0, response |-> "none"]

\* the call of extractConversation has not been made
NotCalled == [called |-> FALSE]

\* no function is called on its own
NoCall == [fn |-> "none"]

\* waitForPageLoad has not been called
NoWait ==
    [state |-> "none", tabId |-> 0, listener |-> FALSE, timer |-> FALSE,
     settled |-> 0]

W == 1..MaxWaits

\* no wait is under study
NoWaits == waits = [w \in W |-> NoWait] /\ signals = <<>>

\* no extractor is under study: the engine is the one of parseAndExtractHtml
NoExtraction ==
    /\ root = PageDocument(<<>>)
    /\ isStatic = TRUE
    /\ urlArg = Undefined
    /\ conversation = NotCalled
    /\ call = NoCall
    /\ returned = NotCalled
    /\ NoWaits

\* background.js:193-197 constructor, README.md:67-71 offscreen globals.  A
\* service worker may start while an offscreen document of an earlier
\* instance is still open.
Init ==
    /\ hd = [h \in H |-> NoHandler]
    /\ offscreenPromise = 0
    /\ promises = <<>>
    /\ offscreen \in {"none", "listening"}
    /\ htmlBuffer = <<>>
    /\ expectedChunks = 0
    /\ receivedChunks = 0
    /\ currentParseUrl = NoUrl
    /\ session = <<>>
    /\ msgs = {}
    /\ resps = {}
    /\ tabs = {}
    /\ nextTabId = 1
    /\ badge = <<>>
    /\ notifications = {}
    /\ NoExtraction

----------------------------------------------------------------------------
(* Messages *)

\* chunk carries request.chunk (PARSE_CHUNK) or request.html (PARSE_CONVERSATION)
Msg(from, type, total, index, chunk, url, data) ==
    [from |-> from, type |-> type, total |-> total, index |-> index,
     chunk |-> chunk, url |-> url, data |-> data]

\* the answer to request m (type and index tell which request it answers)
Resp(m, status, data) ==
    [to |-> m.from, type |-> m.type, index |-> m.index, status |-> status,
     data |-> data]

FromHandler(h) == <<"handler", h>>
FromProvision(a) == <<"provision", a>>

----------------------------------------------------------------------------
(* setupOffscreenDocument, background.js:432-463 *)

NewPromise ==
    [state |-> "pending", pc |-> "getContexts", i |-> 0, created |-> FALSE]

\* setupOffscreenDocument without the check of lines 434-436
SetupReusesNever == FALSE

\* lines 434-436: an existing handle is returned as it is
SetupReuses == offscreenPromise # 0

\* the promise a call of setupOffscreenDocument returns
SetupTarget == IF SetupReuses THEN offscreenPromise ELSE Len(promises) + 1

\* the call can be modelled: it reuses, or the model has a promise left
SetupPossible == SetupReuses \/ Len(promises) < MaxProvision

\* lines 438-462 up to the first await (chrome.runtime.getContexts)
SetupCall ==
    /\ offscreenPromise' = SetupTarget
    /\ promises' = IF SetupReuses THEN promises ELSE Append(promises, NewPromise)

Settle(a, st) ==
    [promises EXCEPT ![a] = [@ EXCEPT !.state = st, !.pc = "end"]]

Pending(a) == a \in 1..Len(promises) /\ promises[a].state = "pending"

\* lines 439-445: the context query returns
ProvGetContexts(a) ==
    /\ Pending(a) /\ promises[a].pc = "getContexts"
    /\ \/ \* the query rejects: outside the try block, the handle stays
          /\ promises' = Settle(a, "rejected")
          /\ UNCHANGED offscreenPromise
       \/ \* existingContexts.length > 0
          /\ offscreen # "none"
          /\ promises' = Settle(a, "resolved")
          /\ UNCHANGED offscreenPromise
       \/ \* no context: chrome.offscreen.createDocument is called
          /\ offscreen = "none"
          /\ promises' = [promises EXCEPT ![a] =
                 [@ EXCEPT !.pc = "createDocument", !.created = TRUE]]
          /\ UNCHANGED offscreenPromise
    /\ UNCHANGED <<hd, offscreen, offVars, msgs, resps, tabVars, uxVars>>
    /\ UNCHANGED exVars

\* lines 456-459: the catch block
ProvCatch(a) ==
    /\ offscreenPromise' = 0
    /\ promises' = Settle(a, "rejected")

\* lines 448-455: createDocument returns; waitForOffscreen sends its first PING
ProvCreateDocument(a) ==
    /\ Pending(a) /\ promises[a].pc = "createDocument"
    /\ \/ \* created: the document starts loading
          /\ offscreen = "none"
          /\ offscreen' = "loading"
          /\ promises' = [promises EXCEPT ![a] = [@ EXCEPT !.pc = "ping", !.i = 0]]
          /\ msgs' = msgs \cup
                 {Msg(FromProvision(a), "PING", 0, 0, <<>>, NoUrl, NoData)}
          /\ UNCHANGED offscreenPromise
       \/ \* createDocument rejects (always when a document exists already)
          /\ ProvCatch(a)
          /\ UNCHANGED <<offscreen, msgs>>
    /\ UNCHANGED <<hd, offVars, resps, tabVars, uxVars>>
    /\ UNCHANGED exVars

\* waitForOffscreen, lines 466-476: the answer to a PING
ProvPing(a) ==
    /\ Pending(a) /\ promises[a].pc = "ping"
    /\ \E r \in resps :
        /\ r.to = FromProvision(a)
        /\ resps' = resps \ {r}
        /\ IF r.status = "ok"
           THEN promises' = Settle(a, "resolved")
           ELSE promises' = [promises EXCEPT ![a] = [@ EXCEPT !.pc = "sleep"]]
    /\ UNCHANGED <<hd, offscreenPromise, offscreen, offVars, msgs, tabVars, uxVars>>
    /\ UNCHANGED exVars

\* ProvSleep with a loop that has no bound: while (true)
ProvSleepUnbounded(a) ==
    /\ Pending(a) /\ promises[a].pc = "sleep"
    /\ promises' = [promises EXCEPT ![a] = [@ EXCEPT !.pc = "ping"]]
    /\ msgs' = msgs \cup
           {Msg(FromProvision(a), "PING", 0, 0, <<>>, NoUrl, NoData)}
    /\ UNCHANGED offscreenPromise
    /\ UNCHANGED <<hd, offscreen, offVars, resps, tabVars, uxVars>>
    /\ UNCHANGED exVars

\* waitForOffscreen, lines 466, 475-477: sleep(100) is over
ProvSleep(a) ==
    /\ Pending(a) /\ promises[a].pc = "sleep"
    /\ IF promises[a].i + 1 < DefaultAttempts
       THEN /\ promises' = [promises EXCEPT ![a] =
                   [@ EXCEPT !.pc = "ping", !.i = @ + 1]]
            /\ msgs' = msgs \cup
                   {Msg(FromProvision(a), "PING", 0, 0, <<>>, NoUrl, NoData)}
            /\ UNCHANGED offscreenPromise
       ELSE /\ ProvCatch(a)
            /\ UNCHANGED msgs
    /\ UNCHANGED <<hd, offscreen, offVars, resps, tabVars, uxVars>>
    /\ UNCHANGED exVars

----------------------------------------------------------------------------
(* The offscreen document *)

\* offscreen.html finished loading: the script has registered its listener
\* (README.md:73) and initialised its globals (README.md:67-71)
OffscreenLoad ==
    /\ offscreen = "loading"
    /\ offscreen' = "listening"
    /\ htmlBuffer' = <<>>
    /\ expectedChunks' = 0
    /\ receivedChunks' = 0
    /\ currentParseUrl' = NoUrl
    /\ session' = <<>>
    /\ UNCHANGED <<hd, provVars, msgs, resps, tabVars, uxVars>>
    /\ UNCHANGED exVars

\* chrome.runtime.sendMessage with no listener in any other context: the
\* promise rejects ("Receiving end does not exist")
NoReceiver(m) ==
    /\ m \in msgs
    /\ offscreen # "listening"
    /\ msgs' = msgs \ {m}
    /\ resps' = resps \cup {Resp(m, "rejected", NoData)}
    /\ UNCHANGED <<hd, provVars, offscreen, offVars, tabVars, uxVars>>
    /\ UNCHANGED exVars

\* README.md:74-77
OnPing(m) ==
    /\ m.type = "PING"
    /\ resps' = resps \cup {Resp(m, "ok", NoData)}
    /\ UNCHANGED offVars

\* README.md:80-87
OnParseInit(m) ==
    /\ m.type = "PARSE_INIT"
    /\ htmlBuffer' = <<>>
    /\ expectedChunks' = m.total
    /\ receivedChunks' = 0
    /\ currentParseUrl' = m.url
    /\ session' = m.from
    /\ resps' = resps \cup {Resp(m, "ok", NoData)}

\* OnParseChunk putting the chunk in front of the buffer
OnParseChunkPrepends(m) ==
    /\ m.type = "PARSE_CHUNK"
    /\ htmlBuffer' = m.chunk \o htmlBuffer
    /\ receivedChunks' = receivedChunks + 1
    /\ resps' = resps \cup {Resp(m, "ok", NoData)}
    /\ UNCHANGED <<expectedChunks, currentParseUrl, session>>

\* README.md:89-94
OnParseChunk(m) ==
    /\ m.type = "PARSE_CHUNK"
    /\ htmlBuffer' = htmlBuffer \o m.chunk
    /\ receivedChunks' = receivedChunks + 1
    /\ resps' = resps \cup {Resp(m, "ok", NoData)}
    /\ UNCHANGED <<expectedChunks, currentParseUrl, session>>

\* OnParseComplete without the count check of lines 97-100
OnParseCompleteUnchecked(m) ==
    /\ m.type = "PARSE_COMPLETE"
    /\ session' = <<>>
    /\ resps' = resps \cup
           {Resp(m, "ok", parseAndExtractHtml(htmlBuffer, currentParseUrl))}
    /\ htmlBuffer' = <<>>
    /\ expectedChunks' = 0
    /\ receivedChunks' = 0
    /\ currentParseUrl' = NoUrl

\* README.md:96-115
OnParseComplete(m) ==
    /\ m.type = "PARSE_COMPLETE"
    /\ session' = <<>>
    /\ IF receivedChunks # expectedChunks
       THEN /\ resps' = resps \cup {Resp(m, "incomplete", NoData)}
            /\ UNCHANGED <<htmlBuffer, expectedChunks, receivedChunks,
                           currentParseUrl>>
       ELSE IF ExtractionThrows(htmlBuffer)
       THEN /\ resps' = resps \cup {Resp(m, "error", NoData)}
            /\ UNCHANGED <<htmlBuffer, expectedChunks, receivedChunks,
                           currentParseUrl>>
       ELSE /\ resps' = resps \cup
                   {Resp(m, "ok",
                         parseAndExtractHtml(htmlBuffer, currentParseUrl))}
            /\ htmlBuffer' = <<>>
            /\ expectedChunks' = 0
            /\ receivedChunks' = 0
            /\ currentParseUrl' = NoUrl

\* OnParseConversation taking the direct payload through the buffer of the
\* chunked transfer
OnParseConversationBuffered(m) ==
    /\ m.type = "PARSE_CONVERSATION"
    /\ IF ExtractionThrows(m.chunk)
       THEN resps' = resps \cup {Resp(m, "error", NoData)}
       ELSE resps' = resps \cup
                {Resp(m, "ok", parseAndExtractHtml(m.chunk, m.url))}
    /\ htmlBuffer' = <<>>
    /\ currentParseUrl' = m.url
    /\ UNCHANGED <<expectedChunks, receivedChunks, session>>

\* README.md:118-127
OnParseConversation(m) ==
    /\ m.type = "PARSE_CONVERSATION"
    /\ IF ExtractionThrows(m.chunk)
       THEN resps' = resps \cup {Resp(m, "error", NoData)}
       ELSE resps' = resps \cup
                {Resp(m, "ok", parseAndExtractHtml(m.chunk, m.url))}
    /\ UNCHANGED offVars

\* README.md:129-132 and handleExport (README.md:143-215): the exporter
\* renders the record or throws
OnGenerateExport(m) ==
    /\ m.type = "GENERATE_EXPORT"
    /\ \E st \in {"ok", "error"} :
           resps' = resps \cup {Resp(m, st, m.data)}
    /\ UNCHANGED offVars

\* README.md:73-133: the listener of the offscreen document
OffscreenOnMessage(m) ==
    /\ m \in msgs
    /\ offscreen = "listening"
    /\ msgs' = msgs \ {m}
    /\ \/ OnPing(m)
       \/ OnParseInit(m)
       \/ OnParseChunk(m)
       \/ OnParseComplete(m)
       \/ OnParseConversation(m)
       \/ OnGenerateExport(m)
    /\ UNCHANGED <<hd, provVars, offscreen, tabVars, uxVars>>
    /\ UNCHANGED exVars

----------------------------------------------------------------------------
(* handleBatchExport, background.js:241-334: the loop *)

SetHandler(h, r) == hd' = [hd EXCEPT ![h] = r]

ClearItem(r) ==
    [r EXCEPT !.html = <<>>, !.k = 0, !.data = NoData, !.awaiting = 0, !.tab = 0]

\* LoopHead issuing the fetch of the item after the next one as well
LoopHeadPrefetch(h, r) ==
    IF r.i < Len(r.ids)
    THEN /\ SetHandler(h, [r EXCEPT !.pc = "fetch",
                 !.fetched = IF r.i + 1 < Len(r.ids)
                             THEN @ \o <<UrlOf(r.ids[r.i + 1]),
                                         UrlOf(r.ids[r.i + 2])>>
                             ELSE Append(@, UrlOf(r.ids[r.i + 1]))])
         /\ badge' = <<Len(r.ids) - r.i>>
         /\ UNCHANGED notifications
    ELSE /\ SetHandler(h, [r EXCEPT !.pc = "done", !.response = "ok"])
         /\ badge' = <<>>
         /\ notifications' = notifications \cup
                {[id |-> "batch-end", by |-> h,
                  text |-> <<r.successful, r.failed>>]}

\* lines 261-277 and 324-333: the head of the loop with r.i the index of the
\* next item; either the fetch of that item is issued or the batch ends
LoopHead(h, r) ==
    IF r.i < Len(r.ids)
    THEN /\ SetHandler(h, [r EXCEPT !.pc = "fetch",
                                    !.fetched = Append(@, UrlOf(r.ids[r.i + 1]))])
         /\ badge' = <<Len(r.ids) - r.i>>
         /\ UNCHANGED notifications
    ELSE /\ SetHandler(h, [r EXCEPT !.pc = "done", !.response = "ok"])
         /\ badge' = <<>>
         /\ notifications' = notifications \cup
                {[id |-> "batch-end", by |-> h,
                  text |-> <<r.successful, r.failed>>]}

\* init, lines 202-209: an error escaping handleMessage is answered
HandlerThrows(h, r) ==
    SetHandler(h, ClearItem([r EXCEPT !.pc = "done", !.response = "error"]))

\* ItemFailed without the catch block of lines 318-321: the error of an item
\* leaves the loop
ItemFailedAborts(h, r) ==
    HandlerThrows(h, r) /\ UNCHANGED uxVars

\* ItemFailed fetching the same item again instead of counting it
ItemFailedRetries(h, r) ==
    /\ SetHandler(h, ClearItem([r EXCEPT !.pc = "fetch"]))
    /\ UNCHANGED uxVars

\* lines 318-321: the catch block of an item, then the next iteration
ItemFailed(h, r) ==
    LoopHead(h, ClearItem([r EXCEPT !.failed = @ + 1, !.i = @ + 1]))

\* lines 315-316: after the delay, then the next iteration
ItemSucceeded(h, r) ==
    LoopHead(h, ClearItem([r EXCEPT !.successful = @ + 1, !.i = @ + 1]))

\* an error thrown while an item (batch) or the export (single) is under way
Fails(h, r) ==
    IF r.kind = "BATCH_EXPORT"
    THEN ItemFailed(h, r)
    ELSE HandlerThrows(h, r) /\ UNCHANGED uxVars

----------------------------------------------------------------------------
(* Requests arriving at the background service, background.js:199-239 *)

RECURSIVE Requested(_)
\* the ids requested by handlers 1..n
Requested(n) == IF n = 0 THEN 0 ELSE Len(hd[n].ids) + Requested(n - 1)

ItemsLeft == MaxItems - Requested(MaxRequests)

Idle(h) == hd[h].kind = "none" /\ \A g \in 1..(h - 1) : hd[g].kind # "none"

\* EXPORT_SINGLE, lines 220-224 and 480-482: exportAndDownload calls
\* setupOffscreenDocument
ReceiveExportSingle(h) ==
    /\ Idle(h)
    /\ SetupPossible
    /\ SetupCall
    /\ SetHandler(h, [NoHandler EXCEPT !.kind = "EXPORT_SINGLE", !.pc = "setupX",
                                       !.data = LiveRecord,
                                       !.awaiting = SetupTarget])
    /\ UNCHANGED <<offscreen, offVars, msgs, resps, tabVars, uxVars>>
    /\ UNCHANGED exVars

\* BATCH_EXPORT, lines 226-227 and 241-259
ReceiveBatchExport(h) ==
    /\ Idle(h)
    /\ SetupPossible
    /\ SetupCall
    /\ \E list \in BatchLists(ItemsLeft) :
        /\ SetHandler(h, [NoHandler EXCEPT !.kind = "BATCH_EXPORT",
                                           !.pc = "setup0", !.ids = list,
                                           !.awaiting = SetupTarget])
        /\ notifications' = notifications \cup
               {[id |-> "batch-start", by |-> h, text |-> <<Len(list)>>]}
    /\ UNCHANGED <<offscreen, offVars, msgs, resps, tabVars, badge>>
    /\ UNCHANGED exVars

Settled(a) == a \in 1..Len(promises) /\ promises[a].state # "pending"

\* line 259: the first setupOffscreenDocument of the batch has settled
ResumeSetupBatch(h) ==
    /\ hd[h].pc = "setup0"
    /\ Settled(hd[h].awaiting)
    /\ IF promises[hd[h].awaiting].state = "resolved"
       THEN LoopHead(h, [hd[h] EXCEPT !.awaiting = 0])
       ELSE HandlerThrows(h, hd[h]) /\ UNCHANGED uxVars
    /\ UNCHANGED <<provVars, offscreen, offVars, msgs, resps, tabVars>>
    /\ UNCHANGED exVars

----------------------------------------------------------------------------
(* One item: fetch and transfer, background.js:268-301 and 336-376 *)

SendFrom(h, type, total, index, chunk, url, data) ==
    msgs' = msgs \cup {Msg(FromHandler(h), type, total, index, chunk, url, data)}

CurrentUrl(r) == UrlOf(r.ids[r.i + 1])

\* SendsChunked comparing html.length, the number of code units
SendsChunkedByLength(html) == Len(html) > 5 * CHUNK_SIZE

\* lines 279-283: htmlSize > 5 * CHUNK_SIZE
SendsChunked(html) == BlobSize(html) > 5 * CHUNK_SIZE

\* lines 272-301, 337-347: the fetch settles
Fetch(h) ==
    /\ hd[h].pc = "fetch"
    /\ \/ \* fetch rejects, the status is not OK, or response.text() rejects
          /\ ItemFailed(h, hd[h])
          /\ UNCHANGED msgs
       \/ LET html == PageOf(hd[h].ids[hd[h].i + 1])
              url  == CurrentUrl(hd[h])
          IN  /\ UNCHANGED uxVars
              /\ IF SendsChunked(html)
                 THEN /\ SetHandler(h, [hd[h] EXCEPT !.pc = "init", !.html = html])
                      /\ SendFrom(h, "PARSE_INIT", Len(ChunksOf(html)), 0,
                                  <<>>, url, NoData)
                 ELSE /\ SetHandler(h, [hd[h] EXCEPT !.pc = "direct", !.html = html])
                      /\ SendFrom(h, "PARSE_CONVERSATION", 0, 0, html, url, NoData)
    /\ UNCHANGED <<provVars, offscreen, offVars, resps, tabVars>>
    /\ UNCHANGED exVars

\* the answer a handler is waiting for
Answer(h, r) == r \in resps /\ r.to = FromHandler(h)

\* ResumeInit without the check of lines 349-351
ResumeInitUnchecked(h) ==
    /\ hd[h].pc = "init"
    /\ \E r \in resps :
        /\ Answer(h, r)
        /\ resps' = resps \ {r}
        /\ SetHandler(h, [hd[h] EXCEPT !.pc = "chunk", !.k = 0])
        /\ SendFrom(h, "PARSE_CHUNK", 0, 0, ChunksOf(hd[h].html)[1],
                    NoUrl, NoData)
        /\ UNCHANGED uxVars
    /\ UNCHANGED <<provVars, offscreen, offVars, tabVars>>
    /\ UNCHANGED exVars

\* lines 349-359: the answer to PARSE_INIT
ResumeInit(h) ==
    /\ hd[h].pc = "init"
    /\ \E r \in resps :
        /\ Answer(h, r)
        /\ resps' = resps \ {r}
        /\ IF r.status # "ok"
           THEN ItemFailed(h, hd[h]) /\ UNCHANGED msgs
           ELSE /\ SetHandler(h, [hd[h] EXCEPT !.pc = "chunk", !.k = 0])
                /\ SendFrom(h, "PARSE_CHUNK", 0, 0, ChunksOf(hd[h].html)[1],
                            NoUrl, NoData)
                /\ UNCHANGED uxVars
    /\ UNCHANGED <<provVars, offscreen, offVars, tabVars>>
    /\ UNCHANGED exVars

\* lines 354-369: the answer to PARSE_CHUNK k
ResumeChunk(h) ==
    /\ hd[h].pc = "chunk"
    /\ \E r \in resps :
        /\ Answer(h, r)
        /\ resps' = resps \ {r}
        /\ IF r.status # "ok"
           THEN ItemFailed(h, hd[h]) /\ UNCHANGED msgs
           ELSE LET chunks == ChunksOf(hd[h].html)
                    next   == hd[h].k + 1
                IN  /\ UNCHANGED uxVars
                    /\ IF next < Len(chunks)
                       THEN /\ SetHandler(h, [hd[h] EXCEPT !.k = next])
                            /\ SendFrom(h, "PARSE_CHUNK", 0, next,
                                        chunks[next + 1], NoUrl, NoData)
                       ELSE /\ SetHandler(h, [hd[h] EXCEPT !.pc = "complete"])
                            /\ SendFrom(h, "PARSE_COMPLETE", 0, 0, <<>>,
                                        CurrentUrl(hd[h]), NoData)
    /\ UNCHANGED <<provVars, offscreen, offVars, tabVars>>
    /\ UNCHANGED exVars

----------------------------------------------------------------------------
(* One item: confidence check, fallback, export; background.js:286-316 *)

\* NeedsFallback reading a confidence the record does not carry
\* (conversationData.confidence is undefined, and undefined < 0.7 is false)
NeedsFallbackNever(data) == FALSE

\* NeedsFallback with metadata.confidence <= 0.7
NeedsFallbackAtThreshold(data) ==
    data.method # "none" /\ data.confidence <= ReliableTenths

\* line 304: conversationData.metadata && metadata.confidence < 0.7
NeedsFallback(data) ==
    data.method # "none" /\ data.confidence < ReliableTenths

\* lines 480-489: exportAndDownload calls setupOffscreenDocument
StartExport(h, r) ==
    /\ SetupCall
    /\ SetHandler(h, [r EXCEPT !.pc = "setupX", !.awaiting = SetupTarget])

\* lines 286-312 and 371-383: the answer to PARSE_COMPLETE or PARSE_CONVERSATION
ResumeParse(h) ==
    /\ hd[h].pc \in {"complete", "direct"}
    /\ \E r \in resps :
        /\ Answer(h, r)
        /\ resps' = resps \ {r}
        /\ IF r.status # "ok"
           THEN /\ ItemFailed(h, hd[h])
                /\ UNCHANGED <<provVars>>
           ELSE IF NeedsFallback(r.data)
           THEN \* fallbackTabExtraction: chrome.tabs.create is called
                /\ SetHandler(h, [hd[h] EXCEPT !.pc = "tabCreate", !.data = r.data])
                /\ UNCHANGED <<provVars, uxVars>>
           ELSE /\ SetupPossible
                /\ StartExport(h, [hd[h] EXCEPT !.data = r.data])
                /\ UNCHANGED uxVars
    /\ UNCHANGED <<offscreen, offVars, msgs, tabVars>>
    /\ UNCHANGED exVars

\* lines 383-389 and 405-422: chrome.tabs.create settles; waitForPageLoad
\* registers its listener and its timer
TabCreate(h) ==
    /\ hd[h].pc = "tabCreate"
    /\ \/ /\ ItemFailed(h, hd[h])
          /\ UNCHANGED tabVars
       \/ /\ tabs' = tabs \cup
                 {[id |-> nextTabId, by |-> h, url |-> CurrentUrl(hd[h]),
                   loaded |-> FALSE]}
          /\ nextTabId' = nextTabId + 1
          /\ SetHandler(h, [hd[h] EXCEPT !.pc = "pageLoad", !.tab = nextTabId])
          /\ UNCHANGED uxVars
    /\ UNCHANGED <<provVars, offscreen, offVars, msgs, resps>>
    /\ UNCHANGED exVars

\* content-main.js (part_007:8-19, 81-97): the content script of a tab has
\* loaded and listens; it sends nothing on its own
ContentScriptLoad(t) ==
    /\ t \in tabs
    /\ ~t.loaded
    /\ tabs' = (tabs \ {t}) \cup {[t EXCEPT !.loaded = TRUE]}
    /\ UNCHANGED <<hd, provVars, offscreen, offVars, msgs, resps, nextTabId, uxVars>>
    /\ UNCHANGED exVars

\* lines 407-410 and 399-400: the timer of waitForPageLoad fires, the promise
\* rejects and the finally block calls chrome.tabs.remove.  PAGE_READY is
\* sent only by the EXTRACT_CONVERSATION handler of the content script
\* (part_007:83-87), and EXTRACT_CONVERSATION is sent only after
\* waitForPageLoad has resolved (lines 389-393): no PAGE_READY ever reaches
\* the listener of lines 412-419.
PageReadyTimeout(h) ==
    /\ hd[h].pc = "pageLoad"
    /\ SetHandler(h, [hd[h] EXCEPT !.pc = "tabRemove"])
    /\ UNCHANGED <<provVars, offscreen, offVars, msgs, resps, tabVars, uxVars>>
    /\ UNCHANGED exVars

\* TabRemoved without the finally block of lines 399-401
TabRemovedLeaks(h) ==
    /\ hd[h].pc = "tabRemove"
    /\ ItemFailed(h, hd[h])
    /\ UNCHANGED <<provVars, offscreen, offVars, msgs, resps, tabVars>>
    /\ UNCHANGED exVars

\* lines 399-401: chrome.tabs.remove has closed the tab; the error of the try
\* block propagates to the catch block of the item
TabRemoved(h) ==
    /\ hd[h].pc = "tabRemove"
    /\ tabs' = {t \in tabs : t.id # hd[h].tab}
    /\ ItemFailed(h, hd[h])
    /\ UNCHANGED <<provVars, offscreen, offVars, msgs, resps, nextTabId>>
    /\ UNCHANGED exVars

\* lines 482-489: setupOffscreenDocument has settled inside exportAndDownload
ResumeSetupExport(h) ==
    /\ hd[h].pc = "setupX"
    /\ Settled(hd[h].awaiting)
    /\ IF promises[hd[h].awaiting].state = "resolved"
       THEN /\ SetHandler(h, [hd[h] EXCEPT !.pc = "generate", !.awaiting = 0])
            /\ SendFrom(h, "GENERATE_EXPORT", 0, 0, <<>>, NoUrl, hd[h].data)
            /\ UNCHANGED uxVars
       ELSE /\ Fails(h, hd[h])
            /\ UNCHANGED msgs
    /\ UNCHANGED <<provVars, offscreen, offVars, resps, tabVars>>
    /\ UNCHANGED exVars

\* ResumeGenerate without the check of line 491
ResumeGenerateUnchecked(h) ==
    /\ hd[h].pc = "generate"
    /\ \E r \in resps :
        /\ Answer(h, r)
        /\ resps' = resps \ {r}
        /\ SetHandler(h, [hd[h] EXCEPT !.pc = "download"])
        /\ UNCHANGED uxVars
    /\ UNCHANGED <<provVars, offscreen, offVars, msgs, tabVars>>
    /\ UNCHANGED exVars

\* lines 491-498: the answer to GENERATE_EXPORT
ResumeGenerate(h) ==
    /\ hd[h].pc = "generate"
    /\ \E r \in resps :
        /\ Answer(h, r)
        /\ resps' = resps \ {r}
        /\ IF r.status = "ok"
           THEN /\ SetHandler(h, [hd[h] EXCEPT !.pc = "download"])
                /\ UNCHANGED uxVars
           ELSE Fails(h, hd[h])
    /\ UNCHANGED <<provVars, offscreen, offVars, msgs, tabVars>>
    /\ UNCHANGED exVars

\* lines 492-495, 223, 315: chrome.downloads.download settles
Download(h) ==
    /\ hd[h].pc = "download"
    /\ \/ Fails(h, hd[h])
       \/ IF hd[h].kind = "BATCH_EXPORT"
          THEN /\ SetHandler(h, [hd[h] EXCEPT !.pc = "sleep", !.downloads = @ + 1])
               /\ UNCHANGED uxVars
          ELSE /\ SetHandler(h, ClearItem([hd[h] EXCEPT !.pc = "done",
                                              !.downloads = @ + 1,
                                              !.response = "ok"]))
               /\ UNCHANGED uxVars
    /\ UNCHANGED <<provVars, offscreen, offVars, msgs, resps, tabVars>>
    /\ UNCHANGED exVars

\* lines 315-316: sleep(1000) is over
Sleep(h) ==
    /\ hd[h].pc = "sleep"
    /\ ItemSucceeded(h, hd[h])
    /\ UNCHANGED <<provVars, offscreen, offVars, msgs, resps, tabVars>>
    /\ UNCHANGED exVars

----------------------------------------------------------------------------
(* The system *)

Provisions == 1..MaxProvision

\* the steps of the handler of request h
HandlerStep(h) ==
    \/ ReceiveExportSingle(h)
    \/ ReceiveBatchExport(h)
    \/ ResumeSetupBatch(h)
    \/ Fetch(h)
    \/ ResumeInit(h)
    \/ ResumeChunk(h)
    \/ ResumeParse(h)
    \/ TabCreate(h)
    \/ PageReadyTimeout(h)
    \/ TabRemoved(h)
    \/ ResumeSetupExport(h)
    \/ ResumeGenerate(h)
    \/ Download(h)
    \/ Sleep(h)

\* the steps of the provisioning bodies, the offscreen document, the
\* message channel and the tabs
OtherStep ==
    \/ \E a \in Provisions :
        \/ ProvGetContexts(a)
        \/ ProvCreateDocument(a)
        \/ ProvPing(a)
        \/ ProvSleep(a)
    \/ OffscreenLoad
    \/ \E m \in msgs : OffscreenOnMessage(m) \/ NoReceiver(m)
    \/ \E t \in tabs : ContentScriptLoad(t)

Next == (\E h \in H : HandlerStep(h)) \/ OtherStep

\* one request at a time: a single sender of transfers
NextSingleSender == HandlerStep(1) \/ OtherStep

Spec == Init /\ [][Next]_vars

SpecSingleSender == Init /\ [][NextSingleSender]_vars

\* a PING that was sent is answered by the listener or rejected by the
\* runtime (chrome.runtime.sendMessage settles)
PingSettles ==
    \E m \in msgs : m.type = "PING" /\ (OffscreenOnMessage(m) \/ NoReceiver(m))

\* the single sender with the scheduling waitForOffscreen relies on: every
\* PING settles, the continuation of a settled await runs, and the timer of
\* sleep(100) fires.  Nothing is assumed about the loading of the document.
SpecHandshake ==
    /\ Init
    /\ [][NextSingleSender]_vars
    /\ WF_vars(PingSettles)
    /\ \A a \in Provisions : WF_vars(ProvPing(a)) /\ WF_vars(ProvSleep(a))

----------------------------------------------------------------------------
(* The extractor on its own: an instance built over any document, in either *)
(* mode, whose extractConversation is called once with any argument         *)

serviceVars == <<hd, provVars, offscreen, offVars, msgs, resps, tabVars, uxVars>>

\* extractor.js:24-40: the instance after construction, before the call
InitExtractor ==
    /\ hd = [h \in H |-> NoHandler]
    /\ offscreenPromise = 0
    /\ promises = <<>>
    /\ offscreen = "none"
    /\ htmlBuffer = <<>>
    /\ expectedChunks = 0
    /\ receivedChunks = 0
    /\ currentParseUrl = NoUrl
    /\ session = <<>>
    /\ msgs = {}
    /\ resps = {}
    /\ tabs = {}
    /\ nextTabId = 1
    /\ badge = <<>>
    /\ notifications = {}
    /\ root \in Documents
    /\ isStatic \in BOOLEAN
    /\ urlArg \in UrlArgs
    /\ conversation = NotCalled
    /\ call = NoCall
    /\ returned = NotCalled
    /\ NoWaits

\* extractor.js:48-93: the call returns or throws
ExtractConversation ==
    /\ conversation = NotCalled
    /\ conversation' = extractConversation(root, isStatic, urlArg)
    /\ root' = IF "thrown" \in DOMAIN conversation' THEN root
               ELSE RootAfterExtraction(root)
    /\ UNCHANGED <<isStatic, urlArg, call, returned, waits, signals>>
    /\ UNCHANGED serviceVars

NextExtractor == ExtractConversation

SpecExtractor == InitExtractor /\ [][NextExtractor]_vars

----------------------------------------------------------------------------
(* sanitizeFilename, common.js (part_007:136-142) *)

\* the code units of the titles: letters of both cases, a digit, the
\* underscore and units that are not alphanumeric
NameUnits == {"a", "B", "7", "_", "/", "."}

Names == SeqsUpTo(NameUnits, MaxNameLen)

\* the class [a-z0-9] under the flag i
Alphanumeric == {"a", "b", "A", "B", "7"}

\* .replace(/[^a-z0-9]/gi, '_')
ReplaceUnsafe(s) ==
    [k \in 1..Len(s) |-> IF s[k] \in Alphanumeric THEN s[k] ELSE "_"]

RECURSIVE CollapseUnderscores(_)
\* .replace(/_+/g, '_')
CollapseUnderscores(s) ==
    IF Len(s) < 2 THEN s
    ELSE IF s[1] = "_" /\ s[2] = "_" THEN CollapseUnderscores(Tail(s))
    ELSE <<s[1]>> \o CollapseUnderscores(Tail(s))

\* .substring(0, n)
Substring(s, n) == SubSeq(s, 1, Min(n, Len(s)))

\* sanitizeFilename without .replace(/_+/g, '_')
sanitizeFilenameUncollapsed(filename) ==
    LET cut == Substring(ReplaceUnsafe(filename), FilenameLimit)
    IN  [k \in 1..Len(cut) |-> ToLowerCase(cut[k])]

\* part_007:136-142
sanitizeFilename(filename) ==
    LET cut == Substring(CollapseUnderscores(ReplaceUnsafe(filename)),
                         FilenameLimit)
    IN  [k \in 1..Len(cut) |-> ToLowerCase(cut[k])]

----------------------------------------------------------------------------
(* Single functions on their own: one call of one function with any        *)
(* argument of a bounded set                                               *)

\* nothing else runs while the function under study is called
ServiceIdle ==
    /\ hd = [h \in H |-> NoHandler]
    /\ offscreenPromise = 0
    /\ promises = <<>>
    /\ offscreen = "none"
    /\ htmlBuffer = <<>>
    /\ expectedChunks = 0
    /\ receivedChunks = 0
    /\ currentParseUrl = NoUrl
    /\ session = <<>>
    /\ msgs = {}
    /\ resps = {}
    /\ tabs = {}
    /\ nextTabId = 1
    /\ badge = <<>>
    /\ notifications = {}
    /\ root = PageDocument(<<>>)
    /\ isStatic = TRUE
    /\ urlArg = Undefined
    /\ conversation = NotCalled
    /\ NoWaits

\* the pages a content script runs in
ContentPages ==
    [turns : SeqsUpTo(TurnNodes, 1), groups : {<<>>}, lazy : {0},
     skeleton : {0}, loadMore : {FALSE}, bodyLong : BOOLEAN]

\* content-main.js (part_007:82-88): the listener of the content script is
\* called with EXTRACT_CONVERSATION.  this.extractor was built over the
\* page's document in live mode (part_007:10) and extractConversation is
\* called without an argument; response is what sendResponse was called
\* with (null when it was not called)
OnExtractConversationRequest(document) ==
    LET data == extractConversation(document, FALSE, Undefined)
    IN  IF "thrown" \in DOMAIN data
        THEN [thrown |-> data.thrown, pageReady |-> FALSE, response |-> Null]
        ELSE [thrown |-> "", pageReady |-> TRUE,
              response |-> <<[success |-> TRUE, data |-> data]>>]

\* the calls under study
InitCalls ==
    /\ ServiceIdle
    /\ returned = NotCalled
    /\ \/ call \in [fn : {"constructor"}, rootElement : RootArgs,
                     isStatic : StaticArgs]
       \/ call \in [fn : {"getMessageTimestamp"}, element : Elements]
       \/ call \in [fn : {"getMessageRole"}, element : Elements]
       \/ call \in [fn : {"getConversationTitle"}, doc : TitleDocuments]
       \/ call \in [fn : {"sanitizeFilename"}, filename : Names]
       \/ call \in [fn : {"EXTRACT_CONVERSATION"}, document : ContentPages]

\* what a call of a single function leaves alone
callFrame == <<serviceVars, root, isStatic, urlArg, conversation, call,
               waits, signals>>

\* extractor.js:24-40
Construct ==
    /\ call.fn = "constructor"
    /\ returned = NotCalled
    /\ returned' = ChatGPTExtractor(call.rootElement, call.isStatic)
    /\ UNCHANGED callFrame

\* the value a call returns
Value(x) == [value |-> x]

\* extractor.js:248-254
GetMessageTimestamp ==
    /\ call.fn = "getMessageTimestamp"
    /\ returned = NotCalled
    /\ returned' = Value(getMessageTimestamp(call.element))
    /\ UNCHANGED callFrame

\* extractor.js:205-224
GetMessageRole ==
    /\ call.fn = "getMessageRole"
    /\ returned = NotCalled
    /\ returned' = Value(getMessageRole(call.element))
    /\ UNCHANGED callFrame

\* extractor.js:169-184
GetConversationTitle ==
    /\ call.fn = "getConversationTitle"
    /\ returned = NotCalled
    /\ returned' = Value(getConversationTitle(call.doc))
    /\ UNCHANGED callFrame

\* common.js (part_007:136-142)
SanitizeFilename ==
    /\ call.fn = "sanitizeFilename"
    /\ returned = NotCalled
    /\ returned' = Value(sanitizeFilename(call.filename))
    /\ UNCHANGED callFrame

\* content-main.js (part_007:81-97)
OnExtractConversation ==
    /\ call.fn = "EXTRACT_CONVERSATION"
    /\ returned = NotCalled
    /\ returned' = OnExtractConversationRequest(call.document)
    /\ UNCHANGED callFrame

NextCalls ==
    \/ OnExtractConversation
    \/ Construct
    \/ GetMessageTimestamp
    \/ GetMessageRole
    \/ GetConversationTitle
    \/ SanitizeFilename

SpecCalls == InitCalls /\ [][NextCalls]_vars

----------------------------------------------------------------------------
(* waitForPageLoad on its own, background.js:405-423: calls of the function *)
(* for tabs chrome.tabs.create has opened, with any runtime message of any  *)
(* sender dispatched to the listeners that are registered                   *)

\* the ids of the tabs that exist: tabs waited for and one nobody waits for
TabIds == 1..(MaxWaits + 1)

\* what chrome.runtime.onMessage hands to a listener: request.type and
\* sender.tab (null for a message of an extension page)
Signals ==
    [type : {"PAGE_READY", "OPEN_EXPORT_PANEL"},
     tab : {Null} \cup {<<t>> : t \in TabIds}]

\* resolve() or reject() of the promise: only the first call settles it
SettleWait(wait, outcome) ==
    [wait EXCEPT !.state = IF @ = "pending" THEN outcome ELSE @,
                 !.settled = @ + 1]

\* messageListener without the test of the sender's tab
messageListenerAnyTab(wait, request) ==
    IF request.type = "PAGE_READY"
    THEN SettleWait([wait EXCEPT !.timer = FALSE, !.listener = FALSE],
                    "resolved")
    ELSE wait

\* lines 412-419: the listener of a wait is called with a message
messageListener(wait, request) ==
    IF request.type = "PAGE_READY" /\ request.tab # Null
           /\ request.tab[1] = wait.tabId
    THEN SettleWait([wait EXCEPT !.timer = FALSE, !.listener = FALSE],
                    "resolved")
    ELSE wait

InitPageLoad ==
    /\ ServiceIdle
    /\ call = NoCall
    /\ returned = NotCalled

pageLoadFrame == <<serviceVars, root, isStatic, urlArg, conversation, call,
                   returned>>

\* lines 405-422: the executor arms the timer and registers the listener;
\* the tab is one that chrome.tabs.create has just opened
WaitForPageLoad(w, tabId) ==
    /\ waits[w].state = "none"
    /\ \A v \in W : waits[v].tabId # tabId
    /\ waits' = [waits EXCEPT ![w] =
           [state |-> "pending", tabId |-> tabId, listener |-> TRUE,
            timer |-> TRUE, settled |-> 0]]
    /\ UNCHANGED signals
    /\ UNCHANGED pageLoadFrame

\* lines 407-410: the timer of a wait fires
PageLoadTimer(w) ==
    /\ waits[w].timer
    /\ waits' = [waits EXCEPT ![w] =
           SettleWait([@ EXCEPT !.timer = FALSE, !.listener = FALSE],
                      "rejected")]
    /\ UNCHANGED signals
    /\ UNCHANGED pageLoadFrame

\* chrome.runtime.onMessage dispatches a message to every listener that is
\* registered
RuntimeMessage(request) ==
    /\ Len(signals) < MaxSignals
    /\ signals' = Append(signals, request)
    /\ waits' = [w \in W |->
           IF waits[w].listener THEN messageListener(waits[w], request)
           ELSE waits[w]]
    /\ UNCHANGED pageLoadFrame

NextPageLoad ==
    \/ \E w \in W, tabId \in 1..MaxWaits : WaitForPageLoad(w, tabId)
    \/ \E w \in W : PageLoadTimer(w)
    \/ \E request \in Signals : RuntimeMessage(request)

SpecPageLoad == InitPageLoad /\ [][NextPageLoad]_vars

----------------------------------------------------------------------------
(* Batch orchestrator *)

Batches == {h \in H : hd[h].kind = "BATCH_EXPORT"}

UrlsOf(ids) == [k \in 1..Len(ids) |-> UrlOf(ids[k])]

InLoop(r) == r.pc \notin {"setup0", "done"}

\* the batch-end notification handler h has created
Tally(h) == {n \in notifications : n.id = "batch-end" /\ n.by = h}

\* C1: every id of a batch is fetched exactly once and in list order, every
\* finished item has incremented exactly one of the two counters, only items
\* whose download was started count as successful, an error of an item never
\* ends the batch, and the tally reported at the end is (downloads, ids minus
\* downloads).
C1_BatchTally ==
    \A h \in Batches :
        LET r == hd[h]
            n == Len(r.ids)
        IN  /\ r.successful + r.failed = r.i
            /\ r.successful = r.downloads - (IF r.pc = "sleep" THEN 1 ELSE 0)
            /\ InLoop(r) =>
                   /\ r.i < n
                   /\ r.fetched = SubSeq(UrlsOf(r.ids), 1, r.i + 1)
                   /\ Tally(h) = {}
            /\ r.pc = "done" =>
                   IF r.response = "ok"
                   THEN /\ r.i = n
                        /\ r.fetched = UrlsOf(r.ids)
                        /\ Tally(h) = {[id |-> "batch-end", by |-> h,
                                        text |-> <<r.downloads, n - r.downloads>>]}
                   ELSE \* only the setup before the loop can end a batch
                        /\ r.fetched = <<>>
                        /\ r.i = 0

\* C1 happens: a batch of three whose first item failed in the extraction
\* has reported 2 succeeded, 1 failed
C1_Witness ==
    \E h \in Batches :
        /\ hd[h].pc = "done" /\ hd[h].response = "ok"
        /\ Len(hd[h].ids) = 3 /\ hd[h].ids[1] = "bad"
        /\ [id |-> "batch-end", by |-> h, text |-> <<2, 1>>] \in notifications

TabOf(h) == {t \in tabs : t.id = hd[h].tab}

LowStatic(data) == data.method = "static-html" /\ data.confidence < 7

\* C2: an item of low static confidence whose fallback tab runs its content
\* script is never counted as failed.
C2_LowConfidenceNotFailed ==
    [][\A h \in H :
          (LowStatic(hd[h].data) /\ \E t \in TabOf(h) : t.loaded)
              => hd'[h].failed = hd[h].failed]_vars

FallbackPcs == {"tabCreate", "pageLoad", "tabRemove"}
ExportPcs == {"setupX", "generate", "download", "sleep"}

\* C3: within a batch item the fallback is under way only for a static record
\* of confidence below 0.7, and then that record is never the one exported;
\* a record is exported without any tab exactly when its confidence is at
\* least 0.7.
C3_FallbackIffLowConfidence ==
    /\ \A h \in Batches :
        /\ hd[h].pc \in FallbackPcs => LowStatic(hd[h].data)
        /\ hd[h].pc \in ExportPcs =>
               /\ ~LowStatic(hd[h].data)
               /\ hd[h].data.method = "static-html" => hd[h].data.confidence >= 7
               /\ hd[h].tab = 0
        /\ hd[h].tab # 0 => hd[h].pc \in FallbackPcs
    /\ \A m \in msgs : m.type = "GENERATE_EXPORT" => ~LowStatic(m.data)
    /\ \A t \in tabs : t.by \in Batches /\ hd[t.by].pc \in FallbackPcs

\* C3 happens: a low-confidence item waits in its fallback tab while another
\* batch exports a reliable static record
C3_Witness ==
    \E h, g \in Batches :
        /\ hd[h].pc = "pageLoad" /\ LowStatic(hd[h].data) /\ TabOf(h) # {}
        /\ hd[g].pc = "generate" /\ hd[g].data.method = "static-html"
        /\ hd[g].data.confidence >= 7

\* C4: an open fallback tab belongs to a batch item whose fallback is still
\* under way, a batch has at most one tab open, and none once it has
\* reported its tally.
C4_TabsRemoved ==
    /\ \A t \in tabs :
        /\ t.by \in Batches
        /\ hd[t.by].pc \in {"pageLoad", "tabRemove"}
        /\ hd[t.by].tab = t.id
    /\ \A h \in H : Cardinality({t \in tabs : t.by = h}) <= 1
    /\ \A h \in Batches : hd[h].pc = "done" => {t \in tabs : t.by = h} = {}

\* C4 happens: a batch created a fallback tab, the wait timed out, and the
\* batch has ended with no tab open
C4_Witness ==
    /\ tabs = {}
    /\ nextTabId > 1
    /\ \E h \in Batches : hd[h].pc = "done" /\ hd[h].failed >= 1 /\ Tally(h) # {}

----------------------------------------------------------------------------
(* Transfer channel *)

\* the listener of the offscreen document handles request m in this step
Handled(m) == m \in msgs /\ m \notin msgs' /\ offscreen = "listening"

\* C5: with a single sender, when PARSE_COMPLETE is on its way the buffer of
\* the parsing context equals the payload the sender fetched, all declared
\* chunks have arrived and the stored url is the one of PARSE_INIT; the
\* record answered was parsed from exactly that payload and url.
C5_RoundTrip ==
    /\ \A m \in msgs : m.type = "PARSE_COMPLETE" =>
           \E h \in H :
               /\ m.from = FromHandler(h)
               /\ htmlBuffer = hd[h].html
               /\ receivedChunks = expectedChunks
               /\ expectedChunks = Len(ChunksOf(hd[h].html))
               /\ currentParseUrl = CurrentUrl(hd[h])
    /\ \A r \in resps : r.type = "PARSE_COMPLETE" =>
           \E h \in H :
               /\ r.to = FromHandler(h)
               /\ r.status = "ok"
               /\ r.data.doc = hd[h].html
               /\ r.data.url = CurrentUrl(hd[h])

\* C5 happens: a payload of two full slices and a shorter one was parsed
C5_Witness ==
    \E r \in resps :
        /\ r.type = "PARSE_COMPLETE" /\ r.status = "ok"
        /\ Len(r.data.doc) = 2 * CHUNK_SIZE + 1

\* C6: a PARSE_COMPLETE handled while receivedChunks differs from
\* expectedChunks is answered with the incomplete-transfer failure, carries
\* no record, and leaves the buffer unparsed.
C6_IncompleteTransferRejected ==
    [][\A m \in msgs :
          (m.type = "PARSE_COMPLETE" /\ Handled(m)
              /\ receivedChunks # expectedChunks)
          => /\ resps' = resps \cup {Resp(m, "incomplete", NoData)}
             /\ htmlBuffer' = htmlBuffer]_vars

\* C6 happens: a transfer was answered as incomplete
C6_Witness ==
    \E r \in resps : r.type = "PARSE_COMPLETE" /\ r.status = "incomplete"

\* the requests and answers of handler h that are under way
InFlight(h) ==
    {m \in msgs : m.from = FromHandler(h)} \cup
    {r \in resps : r.to = FromHandler(h)}

\* answer r is the success that allows handler h to send step m
Allows(h, r, m) ==
    /\ r.to = FromHandler(h)
    /\ r.status = "ok"
    /\ IF m.type = "PARSE_CHUNK" /\ m.index = 0
       THEN r.type = "PARSE_INIT"
       ELSE IF m.type = "PARSE_CHUNK"
       THEN r.type = "PARSE_CHUNK" /\ r.index = m.index - 1
       ELSE r.type = "PARSE_CHUNK"
            /\ r.index = Len(ChunksOf(hd[h].html)) - 1

\* C7: a handler never has two steps under way, and it sends a chunk or the
\* completion only in the step in which it receives the success of the step
\* before it (PARSE_INIT for chunk 0, chunk i for chunk i+1, the last chunk
\* for PARSE_COMPLETE).
C7_StepsAcknowledgedInOrder ==
    /\ [](\A h \in H : Cardinality(InFlight(h)) <= 1)
    /\ [][\A h \in H : \A m \in msgs' \ msgs :
             (m.from = FromHandler(h)
                 /\ m.type \in {"PARSE_CHUNK", "PARSE_COMPLETE"})
             => \E r \in resps \ resps' : Allows(h, r, m)]_vars

\* C7 happens: PARSE_COMPLETE is under way after three acknowledged chunks
C7_Witness ==
    \E m \in msgs :
        /\ m.type = "PARSE_COMPLETE"
        /\ receivedChunks = 3

\* C8: no PARSE_INIT is handled while a reassembly is open.
C8_SingleFlight ==
    [][\A m \in msgs :
          (m.type = "PARSE_INIT" /\ Handled(m)) => session = <<>>]_vars

----------------------------------------------------------------------------
(* Worker lifecycle manager *)

Promises == 1..Len(promises)

SetupPcs == {"setup0", "setupX"}

\* C9: at most one provisioning body is in flight, at most one that called
\* createDocument is in flight or has succeeded, and every caller waiting
\* for a provisioning in flight waits for that same promise.
C9_ProvisionOnce ==
    /\ Cardinality({a \in Promises : promises[a].state = "pending"}) <= 1
    /\ Cardinality({a \in Promises : /\ promises[a].created
                                      /\ promises[a].state # "rejected"}) <= 1
    /\ \A h \in H : hd[h].pc \in SetupPcs =>
           /\ hd[h].awaiting \in Promises
           /\ promises[hd[h].awaiting].state = "pending"
                  => hd[h].awaiting = offscreenPromise

\* C9 happens: two callers wait for one provisioning that has called
\* createDocument
C9_Witness ==
    \E h, g \in H :
        /\ h # g
        /\ hd[h].pc \in SetupPcs /\ hd[g].pc \in SetupPcs
        /\ hd[h].awaiting = hd[g].awaiting
        /\ hd[h].awaiting \in Promises
        /\ promises[hd[h].awaiting].created
        /\ promises[hd[h].awaiting].state = "pending"

\* C10: the handle never holds a provisioning that has failed.
C10_FailureClearsHandle ==
    offscreenPromise # 0 => promises[offscreenPromise].state # "rejected"

\* the offscreen document that exists was created by createDocument of this
\* service (a document found at the start was not)
CreatedHere ==
    offscreen # "none" /\ \E a \in Promises : promises[a].created

\* the offscreen document has answered a PING with success
PingAnswered ==
    \/ \E r \in resps : r.type = "PING" /\ r.status = "ok"
    \/ \E a \in Promises : promises[a].created /\ promises[a].state = "resolved"

ParseRenderTypes ==
    {"PARSE_CONVERSATION", "PARSE_INIT", "PARSE_CHUNK", "PARSE_COMPLETE",
     "GENERATE_EXPORT"}

\* C11: a parse or render request is sent to an offscreen document this
\* service created only after that document has answered a PING with
\* success, also when the setup call follows a failed handshake.
C11_PingBeforeRequests ==
    [][\A m \in msgs' \ msgs :
          (m.type \in ParseRenderTypes /\ CreatedHere) => PingAnswered]_vars

----------------------------------------------------------------------------
(* Extraction engine *)

\* the call of extractConversation has returned a record
Returned == "messages" \in DOMAIN conversation

\* C12: the messages of a returned record carry the indices 0..n-1 in array
\* order, whether they come from the primary or from the grouping selector.
C12_IndicesInOrder ==
    Returned =>
        \A k \in 1..Len(conversation.messages) :
            conversation.messages[k].index = k - 1

\* the messages come from the grouping selector
FallbackUsed == Len(root.turns) = 0 /\ Len(root.groups) > 0

\* C13: when the primary selector matches nothing and the grouping selector
\* matches some node, every message of the record is built from a group with
\* text, has role 'unknown' and no timestamp.
C13_FallbackRoleUnknown ==
    (Returned /\ FallbackUsed) =>
        /\ Len(conversation.messages) =
               Cardinality({k \in 1..Len(root.groups) :
                                Trim(root.groups[k].textContent) # <<>>})
        /\ \A k \in 1..Len(conversation.messages) :
               /\ conversation.messages[k].role = "unknown"
               /\ conversation.messages[k].timestamp = Null
               /\ \E g \in 1..Len(root.groups) :
                      conversation.messages[k].content =
                          Trim(root.groups[g].textContent)

\* C13 happens: two groups with text gave two messages
C13_Witness ==
    /\ Returned /\ FallbackUsed
    /\ Len(conversation.messages) = 2

\* C14: the confidence of a static record lies between 0.0 and 1.0.
C14_ConfidenceClamped ==
    (Returned /\ isStatic) =>
        /\ conversation.metadata.confidence >= 0
        /\ conversation.metadata.confidence <= 10

\* C14 happens: the penalties of four checks (1.8 together) gave 0.0
C14_Witness ==
    /\ Returned /\ isStatic
    /\ conversation.metadata.warnings =
           <<"lazy", "truncated", "skeleton", "empty">>
    /\ conversation.metadata.confidence = 0

\* C15: a live record has confidence 1.0 and an empty list of warnings.
C15_LiveMetadata ==
    (Returned /\ ~isStatic) =>
        /\ conversation.metadata.confidence = 10
        /\ "warnings" \in DOMAIN conversation.metadata
        /\ conversation.metadata.warnings = <<>>

\* the url argument is a non-empty string
ValidUrl(x) == x.t = "string" /\ Len(x.v) > 0

\* C20: a call without a non-empty string url throws the explicit error and
\* returns no record; a returned record carries the url of the argument.
C20_UrlRequired ==
    conversation # NotCalled =>
        IF ValidUrl(urlArg)
        THEN Returned /\ conversation.url = urlArg.v
        ELSE conversation = Thrown("URL parameter is required for extraction")

\* C20 happens: a call with a number for the url has thrown
C20_Witness ==
    /\ urlArg = Num(42)
    /\ conversation = Thrown("URL parameter is required for extraction")

----------------------------------------------------------------------------
(* Transfer strategy and ordering of a batch *)

ChunkedPcs == {"init", "chunk", "complete"}

\* the byte size of the payload handler h is transferring
PayloadBytes(h) == BlobSize(hd[h].html)

\* C16 as stated: a payload is sent as one PARSE_CONVERSATION only if it is
\* strictly below 5 * CHUNK_SIZE bytes, and through the chunked protocol
\* only if it is at or above.
C16_ChunkedAtOrAbove ==
    \A h \in Batches :
        /\ hd[h].pc = "direct" => PayloadBytes(h) < 5 * CHUNK_SIZE
        /\ hd[h].pc \in ChunkedPcs => PayloadBytes(h) >= 5 * CHUNK_SIZE

\* C16: a payload of at most 5 * CHUNK_SIZE bytes is sent as one
\* PARSE_CONVERSATION carrying all of it, and a payload strictly above
\* through the chunked protocol.
C16_ChunkedAbove ==
    /\ \A h \in Batches :
        /\ hd[h].pc = "direct" => PayloadBytes(h) <= 5 * CHUNK_SIZE
        /\ hd[h].pc \in ChunkedPcs => PayloadBytes(h) > 5 * CHUNK_SIZE
    /\ \A m \in msgs :
        /\ m.type = "PARSE_CONVERSATION" => BlobSize(m.chunk) <= 5 * CHUNK_SIZE
        /\ m.type = "PARSE_INIT" =>
               \E h \in Batches : /\ m.from = FromHandler(h)
                                  /\ PayloadBytes(h) > 5 * CHUNK_SIZE

\* C16 happens: a payload of exactly 5 * CHUNK_SIZE bytes is under way as a
\* single message while a larger one is under way in chunks
C16_Witness ==
    /\ \E m \in msgs :
        m.type = "PARSE_CONVERSATION" /\ BlobSize(m.chunk) = 5 * CHUNK_SIZE
    /\ \E h \in Batches : hd[h].pc \in ChunkedPcs

\* the items of batch h that have reached Done or Failed
Finished(h) == hd[h].successful + hd[h].failed

\* the url of the item of batch h that is under way
ItemUrl(h) == UrlOf(hd[h].ids[Finished(h) + 1])

\* C17: the fetches of a batch follow the list, at most one item of a batch
\* is under way, every request and tab of the batch belongs to that item,
\* and a fetch starts only in a state in which all items before it are
\* counted as succeeded or failed and nothing of them is under way.
C17_ItemsSequential ==
    /\ [](\A h \in Batches :
            /\ Len(hd[h].fetched) - Finished(h) \in {0, 1}
            /\ \A k \in 1..Len(hd[h].fetched) :
                   hd[h].fetched[k] = UrlOf(hd[h].ids[k])
            /\ \A m \in msgs :
                   (m.from = FromHandler(h)
                       /\ m.type \in {"PARSE_INIT", "PARSE_CONVERSATION",
                                      "PARSE_COMPLETE"})
                   => (Finished(h) < Len(hd[h].ids) /\ m.url = ItemUrl(h))
            /\ \A t \in tabs :
                   t.by = h => (Finished(h) < Len(hd[h].ids) /\ t.url = ItemUrl(h)))
    /\ [][\A h \in H :
             Len(hd'[h].fetched) > Len(hd[h].fetched)
             => /\ Len(hd'[h].fetched) = Len(hd[h].fetched) + 1
                /\ hd'[h].successful + hd'[h].failed = Len(hd[h].fetched)
                /\ InFlight(h)' = {}
                /\ \A t \in tabs' : t.by # h]_vars

\* C17 happens: the third item of a batch is under way after one item
\* succeeded and one failed
C17_Witness ==
    \E h \in Batches :
        /\ Len(hd[h].fetched) = 3
        /\ hd[h].successful = 1 /\ hd[h].failed = 1
        /\ \E m \in msgs : m.from = FromHandler(h)

\* the steps of an item a batch handler can be at, with the steps that can
\* follow each while the item goes on
StepsAfter(pc) ==
    CASE pc = "fetch"     -> {"direct", "init"}
      [] pc = "init"      -> {"chunk"}
      [] pc = "chunk"     -> {"chunk", "complete"}
      [] pc = "direct"    -> {"setupX", "tabCreate"}
      [] pc = "complete"  -> {"setupX", "tabCreate"}
      [] pc = "tabCreate" -> {"pageLoad"}
      [] pc = "pageLoad"  -> {"tabRemove"}
      [] pc = "tabRemove" -> {}
      [] pc = "setupX"    -> {"generate"}
      [] pc = "generate"  -> {"download"}
      [] pc = "download"  -> {"sleep"}
      [] pc = "sleep"     -> {}
      [] OTHER            -> {}

\* handler h receives, in this step, the success of its request of this type
Succeeded(h, type) ==
    \E r \in resps \ resps' :
        r.to = FromHandler(h) /\ r.type = type /\ r.status = "ok"

\* C18: the steps of a batch item follow the order fetch, transfer (direct,
\* or init, chunks, complete), confidence check, fallback or export (setup,
\* render, download), delay; an item moves on only within that order or ends;
\* parse requests exist only for a fetched page, a render request only for a
\* record that passed the confidence check, and a download is started only on
\* receiving the success of the render request.
C18_StepsInOrder ==
    /\ [](/\ \A h \in Batches : \A m \in msgs :
               m.from = FromHandler(h) =>
                   IF m.type = "GENERATE_EXPORT"
                   THEN /\ hd[h].pc = "generate"
                        /\ m.data = hd[h].data
                        /\ m.data.method = "static-html"
                        /\ m.data.confidence >= 7
                   ELSE /\ hd[h].pc \in ChunkedPcs \cup {"direct"}
                        /\ hd[h].html = PageOf(hd[h].ids[Finished(h) + 1])
                        /\ hd[h].data = NoData)
    /\ [][\A h \in Batches :
             LET r == hd[h]
                 q == hd'[h]
             IN  /\ (q.successful + q.failed = r.successful + r.failed
                        /\ q.pc # r.pc /\ r.pc # "setup0")
                    => q.pc \in StepsAfter(r.pc)
                 /\ r.pc = "setup0" => q.pc \in {"setup0", "fetch", "done"}
                 /\ q.successful + q.failed # r.successful + r.failed
                    => /\ q.successful + q.failed = r.successful + r.failed + 1
                       /\ q.pc \in {"fetch", "done"}
                       /\ q.successful > r.successful => r.pc = "sleep"
                 /\ (r.pc = "fetch" /\ q.failed > r.failed) => msgs' = msgs
                 /\ q.pc = "download" /\ r.pc # "download"
                    => Succeeded(h, "GENERATE_EXPORT")
                 /\ q.pc = "chunk" /\ r.pc = "init" => Succeeded(h, "PARSE_INIT")
                 /\ (q.pc \in {"setupX", "tabCreate"} /\ r.pc = "direct")
                    => Succeeded(h, "PARSE_CONVERSATION")
                 /\ (q.pc \in {"setupX", "tabCreate"} /\ r.pc = "complete")
                    => Succeeded(h, "PARSE_COMPLETE")
                 /\ q.downloads > r.downloads => r.pc = "download"]_vars

\* C18 happens: a page transferred in chunks was extracted, rendered and
\* downloaded, and the item is in its closing delay
C18_Witness ==
    \E h \in Batches :
        /\ hd[h].pc = "sleep"
        /\ hd[h].html = PageOf("big")
        /\ hd[h].downloads = 1

\* C19: a batch whose handler has ended has reported its tally (a handler
\* that has ended takes no further step, so a batch that ends without its
\* tally never reports it).
C19_EndedBatchReported ==
    \A h \in Batches : hd[h].pc = "done" => Tally(h) # {}

----------------------------------------------------------------------------
(* Single functions *)

\* the function under study was called and has returned or thrown
Called(fn) == call.fn = fn /\ returned # NotCalled

\* the root is null or undefined
Absent(x) == x.t = "undefined" \/ (x.t = "object" /\ x.v = <<>>)

\* C21: the constructor throws a TypeError when the root is absent, has no
\* querySelectorAll or is neither a document nor an element, and otherwise
\* stores the root and the static flag (false when none is given).
C21_ConstructorValidates ==
    Called("constructor") =>
        IF \/ Absent(call.rootElement)
           \/ ~HasQuerySelectorAll(call.rootElement)
           \/ call.rootElement.v[1].nodeType \notin {1, 9}
        THEN "name" \in DOMAIN returned /\ returned.name = "TypeError"
        ELSE /\ "root" \in DOMAIN returned
             /\ returned.root = call.rootElement
             /\ returned.isStatic =
                    (IF call.isStatic.t = "undefined" THEN Bool(FALSE)
                     ELSE call.isStatic)

\* C22: the metadata of every returned record carries extractionMethod,
\* confidence, warnings and isReliable, and isReliable is true exactly when
\* the confidence is at least 0.7.
C22_MetadataComplete ==
    Returned =>
        /\ {"extractionMethod", "confidence", "warnings", "isReliable"}
               \subseteq DOMAIN conversation.metadata
        /\ conversation.metadata.isReliable
               = (conversation.metadata.confidence >= 7)

\* C23: getMessageTimestamp returns the datetime attribute of the first time
\* element when it is present and not empty, otherwise the text of that
\* element; it returns null for a message without a time element and for a
\* time element that has neither the attribute nor text.
C23_TimestampCascade ==
    Called("getMessageTimestamp") =>
        LET e == call.element
        IN  IF e.time = Null
            THEN returned.value = Null
            ELSE IF e.time[1].datetime \notin {Null, <<"">>}
            THEN returned.value = e.time[1].datetime
            ELSE IF e.time[1].textContent # ""
            THEN returned.value = <<e.time[1].textContent>>
            ELSE returned.value = Null

\* the candidates of a title document in the order of the cascade
Candidates(doc) == <<doc.h1, doc.text2xl, doc.title>>

\* candidate k exists and has text after trimming
HasTitle(doc, k) ==
    Candidates(doc)[k] # Null /\ Trim(Candidates(doc)[k][1]) # <<>>

\* C24: the title is the trimmed text of the first of h1, text-2xl node and
\* title element that exists with text after trimming, and the placeholder
\* 'ChatGPT Conversation' when there is none; it is never empty.
C24_TitleCascade ==
    Called("getConversationTitle") =>
        /\ returned.value # <<>>
        /\ \A k \in 1..3 :
               (HasTitle(call.doc, k) /\ \A j \in 1..(k - 1) : ~HasTitle(call.doc, j))
               => returned.value = Trim(Candidates(call.doc)[k][1])
        /\ (\A k \in 1..3 : ~HasTitle(call.doc, k))
               => returned.value = <<"ChatGPT Conversation">>

\* C24 happens: a blank h1 and no text-2xl node, the title element decided
C24_Witness ==
    /\ Called("getConversationTitle")
    /\ call.doc.h1 = <<<<" ">>>> /\ call.doc.text2xl = Null
    /\ returned.value = <<"T">>

\* C28: the role is decided by the data attribute first, then by the class
\* name, then by the alt text of the avatar, and is 'unknown' otherwise.
C28_RoleCascade ==
    Called("getMessageRole") =>
        LET e == call.element
            alt == IF e.alt = Null THEN <<>>
                   ELSE [k \in 1..Len(e.alt[1]) |-> ToLowerCase(e.alt[1][k])]
        IN  returned.value =
                (IF e.author \in {<<"user">>, <<"assistant">>} THEN e.author[1]
                 ELSE IF Includes(e.className, "user") THEN "user"
                 ELSE IF Includes(e.className, "assistant") THEN "assistant"
                 ELSE IF Includes(alt, "user") THEN "user"
                 ELSE IF Includes(alt, "chatgpt") \/ Includes(alt, "assistant")
                 THEN "assistant"
                 ELSE "unknown")

\* C25: the result of sanitizeFilename is no longer than the limit, holds
\* only lowercase letters, digits and underscores, has no two underscores in
\* a row, and is left as it is by a second application.
C25_FilenameSafe ==
    Called("sanitizeFilename") =>
        LET r == returned.value
        IN  /\ Len(r) <= FilenameLimit
            /\ \A k \in 1..Len(r) : r[k] \in {"a", "b", "7", "_"}
            /\ \A k \in 1..(Len(r) - 1) : ~(r[k] = "_" /\ r[k + 1] = "_")
            /\ sanitizeFilename(r) = r

\* C25 happens: a title of five units with an uppercase letter and two unsafe
\* units in a row was collapsed, cut and lowered
C25_Witness ==
    /\ Called("sanitizeFilename")
    /\ call.filename = <<"B", "/", ".", "a", "7">>
    /\ returned.value = <<"b", "_", "a">>

\* the penalty, in tenths, of a condition
Penalty(cond, tenths) == IF cond THEN tenths ELSE 0

C27_CompleteClearsSession ==
    [][\A m \in msgs :
          (m.type = "PARSE_COMPLETE" /\ Handled(m)) =>
              /\ htmlBuffer' = <<>>
              /\ expectedChunks' = 0
              /\ receivedChunks' = 0
              /\ currentParseUrl' = NoUrl]_vars

\* C30: when the handshake is exhausted after createDocument succeeded, the
\* failed provisioning leaves no offscreen document behind.
C30_FailedHandshakeDisposes ==
    [][\A a \in Promises :
          (/\ promises[a].created
           /\ promises[a].pc = "sleep"
           /\ promises'[a].state = "rejected") => offscreen' = "none"]_vars

\* provisioning a is inside waitForOffscreen
InHandshake(a) ==
    a \in Promises /\ promises[a].state = "pending"
        /\ promises[a].pc \in {"ping", "sleep"}

\* a PING of provisioning a is sent in this step
PingSent(a) ==
    \E m \in msgs' \ msgs : m.type = "PING" /\ m.from = FromProvision(a)

\* the answer to a PING of provisioning a that is taken in this step
PingTaken(a) == {r \in resps \ resps' : r.to = FromProvision(a)}

\* C29: waitForOffscreen sends at most `attempts` PINGs, one per attempt;
\* it succeeds at the first PING answered with success and an answer that is
\* a rejection or not a success only ends the attempt; it fails only after
\* the last attempt has failed; and once entered it ends, with success or
\* with the error, given that every PING settles.
C29_HandshakeTerminates ==
    /\ [][\A a \in Promises :
             /\ PingSent(a) =>
                    /\ promises'[a].pc = "ping"
                    /\ promises'[a].i < DefaultAttempts
                    /\ promises'[a].i =
                           (IF promises[a].pc = "sleep"
                            THEN promises[a].i + 1 ELSE 0)
             /\ (promises[a].pc = "ping" /\ PingTaken(a) # {}) =>
                    \A r \in PingTaken(a) :
                        IF r.status = "ok"
                        THEN promises'[a].state = "resolved"
                        ELSE /\ promises'[a].state = "pending"
                             /\ promises'[a].pc = "sleep"
             /\ (InHandshake(a) /\ promises'[a].state = "resolved") =>
                    \E r \in PingTaken(a) : r.status = "ok"
             /\ (InHandshake(a) /\ promises'[a].state = "rejected") =>
                    /\ promises[a].pc = "sleep"
                    /\ promises[a].i = DefaultAttempts - 1]_vars
    /\ \A a \in Provisions :
           InHandshake(a) ~> (a \in Promises /\ promises[a].state # "pending")

\* C29 happens: the last attempt failed and the provisioning ended with the
\* error
C29_Witness ==
    \E a \in Promises :
        /\ promises[a].created
        /\ promises[a].state = "rejected"
        /\ promises[a].i = DefaultAttempts - 1

\* the message dispatched in this step, if any
Dispatched == IF signals' # signals THEN {signals'[Len(signals')]} ELSE {}

\* C31: a wait settles exactly once; it resolves only on a PAGE_READY whose
\* sender tab is the awaited tab, and does so on the first such message;
\* otherwise it rejects when its timer fires; and a settled wait has neither
\* its listener registered nor its timer armed.
C31_WaitSettlesOnce ==
    /\ [](\A w \in W :
            /\ waits[w].settled <= 1
            /\ waits[w].state \in {"resolved", "rejected"}
                   <=> waits[w].settled = 1
            /\ waits[w].state = "pending"
                   <=> (waits[w].listener /\ waits[w].timer)
            /\ waits[w].state # "pending"
                   => (~waits[w].listener /\ ~waits[w].timer))
    /\ [][\A w \in W : waits[w].state = "pending" =>
             LET ready == {m \in Dispatched :
                              m.type = "PAGE_READY"
                                  /\ m.tab = <<waits[w].tabId>>}
             IN  /\ waits'[w].state = "resolved" <=> ready # {}
                 /\ waits'[w].state = "rejected" => Dispatched = {}]_vars

\* C31 happens: one wait has resolved on the PAGE_READY of its tab; the
\* other got only a message of another type from its tab and was rejected
\* by its timer
C31_Witness ==
    \E w, v \in W :
        /\ waits[w].state = "resolved"
        /\ waits[v].state = "rejected"
        /\ signals = <<[type |-> "PAGE_READY", tab |-> <<waits[w].tabId>>],
                       [type |-> "OPEN_EXPORT_PANEL",
                        tab |-> <<waits[v].tabId>>]>>

\* how far an item has got
ItemRank(pc) ==
    CASE pc = "fetch" -> 1
      [] pc = "init" -> 2
      [] pc = "chunk" -> 3
      [] pc \in {"complete", "direct"} -> 4
      [] pc = "tabCreate" -> 5
      [] pc = "pageLoad" -> 6
      [] pc = "tabRemove" -> 7
      [] pc = "setupX" -> 8
      [] pc = "generate" -> 9
      [] pc = "download" -> 10
      [] pc = "sleep" -> 11

\* the requests of the given types handler h sends in this step
SentBy(h, types) ==
    {m \in msgs' \ msgs : m.from = FromHandler(h) /\ m.type \in types}

\* the tabs opened for handler h in this step
OpenedBy(h) ==
    {t \in tabs' : t.by = h /\ \A u \in tabs : u.id # t.id}

\* C32: nothing of a batch item is done twice: while the item stays the same
\* its handler only moves forward (chunk by chunk during a chunked transfer)
\* and issues no further fetch; a transfer is started only when the fetch
\* settles, a fallback tab is opened only once after the parse answer, a
\* render request is sent only once after the setup, and a download is
\* started only once after the render answer.
C32_NothingRetried ==
    [][\A h \in H : hd[h].kind = "BATCH_EXPORT" =>
          LET r == hd[h]
              q == hd'[h]
          IN  /\ (InLoop(r) /\ InLoop(q) /\ q.i = r.i /\ q # r) =>
                     /\ \/ ItemRank(q.pc) > ItemRank(r.pc)
                        \/ r.pc = "chunk" /\ q.pc = "chunk" /\ q.k = r.k + 1
                     /\ q.fetched = r.fetched
              /\ q.fetched # r.fetched =>
                     /\ Len(q.fetched) = Len(r.fetched) + 1
                     /\ r.pc = "setup0" \/ q.i = r.i + 1
              /\ SentBy(h, {"PARSE_INIT", "PARSE_CONVERSATION"}) # {} =>
                     /\ r.pc = "fetch"
                     /\ Cardinality(SentBy(h, {"PARSE_INIT",
                                               "PARSE_CONVERSATION"})) = 1
              /\ OpenedBy(h) # {} => r.pc = "tabCreate"
              /\ SentBy(h, {"GENERATE_EXPORT"}) # {} => r.pc = "setupX"
              /\ q.downloads # r.downloads =>
                     /\ r.pc = "download"
                     /\ q.downloads = r.downloads + 1]_vars

\* C32 happens: the second item of a batch has been fetched, transferred,
\* rendered and downloaded, after a first item that was downloaded too
C32_Witness ==
    \E h \in Batches :
        /\ hd[h].pc = "sleep"
        /\ hd[h].i = 1
        /\ Len(hd[h].fetched) = 2
        /\ hd[h].downloads = 2

\* C33: the fetch of an item that is not the first of its batch is issued
\* when the inter-item delay is over, whether the item before it succeeded
\* or failed.
C33_DelayBetweenItems ==
    [][\A h \in H :
          (Len(hd'[h].fetched) > Len(hd[h].fetched) /\ hd[h].pc # "setup0")
              => hd[h].pc = "sleep"]_vars

\* C34: a call of extractConversation leaves the document it reads as it
\* was, in live mode and in static mode.
C34_RootUnchanged ==
    [][conversation' # conversation => root' = root]_vars

\* C35: a call of setupOffscreenDocument made while no provisioning is in
\* flight starts a provisioning of its own, which asks for the existing
\* contexts and creates the document if there is none.
C35_SetupChecksContext ==
    [][\A h \in H :
          (/\ hd[h].awaiting = 0
           /\ hd'[h].awaiting # 0
           /\ \A a \in Promises : promises[a].state # "pending")
          => /\ Len(promises') = Len(promises) + 1
             /\ hd'[h].awaiting = Len(promises')
             /\ promises'[hd'[h].awaiting].pc = "getContexts"]_vars

\* what the orchestrator reads of the record of the extractor under study
ParsedData ==
    [method |-> conversation.metadata.extractionMethod,
     confidence |-> conversation.metadata.confidence]

\* C36: for a static record the orchestrator falls back to the live tab
\* exactly when assessCompleteness reports the record as not reliable; a
\* score of exactly 0.7 is reliable and is not followed by a fallback.
C36_FallbackIffUnreliable ==
    (Returned /\ isStatic) =>
        LET assessment == AssessCompleteness(root, conversation.messages)
        IN  /\ NeedsFallback(ParsedData) <=> ~assessment.isReliable
            /\ assessment.score = 7 =>
                   (assessment.isReliable /\ ~NeedsFallback(ParsedData))

\* C36 happens: a page without messages whose only flaw is a lazy-load
\* placeholder scores exactly 0.7
C36_Witness ==
    /\ Returned /\ isStatic
    /\ conversation.messages = <<>>
    /\ root.lazy = 1
    /\ conversation.metadata.confidence = 7

\* C37: with overlapping batches, a PARSE_COMPLETE whose counts match is
\* answered from a buffer that is exactly the payload of its sender, stored
\* with the url of that sender.
C37_NoMixedParse ==
    [][\A m \in msgs :
          (/\ m.type = "PARSE_COMPLETE"
           /\ Handled(m)
           /\ receivedChunks = expectedChunks)
          => \E h \in H :
                 /\ m.from = FromHandler(h)
                 /\ htmlBuffer = hd[h].html
                 /\ currentParseUrl = CurrentUrl(hd[h])]_vars

RECURSIVE FirstSlices(_, _)
\* the first n slices of a payload, one after the other
FirstSlices(html, n) ==
    IF n = 0 THEN <<>>
    ELSE FirstSlices(html, n - 1) \o ChunksOf(html)[n]

\* C38: with a single sender, receivedChunks lies between 0 and
\* expectedChunks, and the buffer is the first receivedChunks slices of the
\* payload under transfer in their order (nothing when no transfer is on).
C38_BufferIsPrefix ==
    /\ 0 <= receivedChunks
    /\ receivedChunks <= expectedChunks
    /\ IF \E h \in H : hd[h].pc \in ChunkedPcs
       THEN \A h \in H : hd[h].pc \in ChunkedPcs =>
                /\ expectedChunks \in {0, Len(ChunksOf(hd[h].html))}
                /\ htmlBuffer = FirstSlices(hd[h].html, receivedChunks)
       ELSE receivedChunks = 0 /\ htmlBuffer = <<>>

\* C38 happens: two of three slices have arrived, the second answer is on
\* its way back
C38_Witness ==
    /\ receivedChunks = 2
    /\ expectedChunks = 3
    /\ Len(htmlBuffer) = 2 * CHUNK_SIZE
    /\ \E r \in resps : r.type = "PARSE_CHUNK" /\ r.index = 1

\* C39: the listener handling PING, PARSE_CONVERSATION or GENERATE_EXPORT
\* leaves the buffer, both counters and the stored url as they are.
C39_OtherRequestsKeepSession ==
    [][\A m \in msgs :
          (m.type \in {"PING", "PARSE_CONVERSATION", "GENERATE_EXPORT"}
              /\ Handled(m))
          => /\ htmlBuffer' = htmlBuffer
             /\ expectedChunks' = expectedChunks
             /\ receivedChunks' = receivedChunks
             /\ currentParseUrl' = currentParseUrl]_vars

\* C39 happens: a direct parse was answered in the middle of a chunked
\* transfer of another batch
C39_Witness ==
    /\ receivedChunks = 1
    /\ expectedChunks = 3
    /\ htmlBuffer = ChunksOf(PageOf("big"))[1]
    /\ \E r \in resps : r.type = "PARSE_CONVERSATION" /\ r.status = "ok"

\* C40: the content script answers every EXTRACT_CONVERSATION with
\* success: true and a live record (method live, confidence 1.0) for the url
\* of its page.
C40_ExtractAnswered ==
    Called("EXTRACT_CONVERSATION") =>
        /\ returned.response # Null
        /\ returned.response[1].success
        /\ returned.response[1].data.metadata.extractionMethod = "live-dom"
        /\ returned.response[1].data.metadata.confidence = 10
        /\ returned.response[1].data.url = AmbientUrl

====
